---- MODULE Spec2Model ----
(***************************************************************************)
(* The listing-transfer orchestrator of OlxListingSync: AutomationService  *)
(* (startAutomation, updateProgress, createOLXListing, stopAutomation)     *)
(* over the storage collaborator (automations, olxCodes, systemLogs,       *)
(* settings).  The repository holds two variants of AutomationService;     *)
(* the variable `variant` says which one was constructed.                  *)
(*                                                                         *)
(* The service is asynchronous: calls interleave at every `await`.  A step *)
(* of a call is one awaited read or write of the automations or olxCodes   *)
(* store, together with the awaited log and browser calls around it:       *)
(* those only append to the log sink or use the browser, so they commute   *)
(* with every step of every other call.  Every awaited storage, log or     *)
(* browser call may throw instead of returning; a step lists each place    *)
(* where that can happen as one of its outcomes.                           *)
(***************************************************************************)
EXTENDS Integers, Sequences, FiniteSets, Bags, TLC

(* ---- bounds of the model ---- *)
MaxJobs == 2
MaxCodes == 2
MaxCalls == 2
MaxStops == 1
MaxFaults == 1

(* ---- program constants ---- *)
NumPhotos == 3

JobIds == 1..MaxJobs
\* An id no job is ever created with.
UnknownJob == MaxJobs + 1
CodeIds == 1..MaxCodes
Runs == {"r1", "r2"}
Stops == {"s1"}
NoJob == 0
NoCode == 0
MainBroker == "broker 1"
OtherBroker == "broker 2"
\* A broker that owns no code.
CodelessBroker == "broker 3"
Null == "null"

StepOrder ==
  << "connecting_univen", "extracting_data", "downloading_photos",
     "connecting_olx", "creating_listing", "finalizing" >>

TerminalStatus == {"completed", "failed", "stopped"}

StopReason == "Automation stopped by user"

VARIABLES
  variant,            \* which AutomationService class is constructed
  automations,        \* storage: id -> Automation record
  currentAutomationId,\* storage: next automation id
  olxCodes,           \* storage: id -> OlxCode record
  systemLogs,         \* storage: bag of SystemLog entries
  activeAutomations,  \* AutomationService.activeAutomations (its key set)
  browser,            \* AutomationService.browser: "null" or "connected"
  run,                \* per call of startAutomation: position and locals
  calls,              \* number of startAutomation calls made so far
  stop,               \* per call of stopAutomation: position and argument
  stopCalls,          \* number of stopAutomation calls made so far
  faults              \* number of awaited calls that have thrown so far

\* The connectivity prober and the browser handle, taken on their own.
VARIABLES
  login,              \* testUnivenConnection: the login response and its verdict
  probe,              \* browser-driven probe: the page after login and its verdict
  puppeteer,          \* this.browser, the browsers launched, the pages opened
                      \* and each caller's position in getBrowser and after it
  transition,         \* one job's record and each call's position inside
                      \* updateProgress: persist, log, broadcast
  credentials,        \* the credential settings and one call's way through
                      \* the connecting steps
  tester,             \* ConnectivityTester: one call of a test method
  wss,                \* the WebSocket server's clients and one broadcast
  memStorage,         \* MemStorage's automations under the routes' requests
  form,               \* a login page and a probe's lookup of its form fields
  listing             \* the stored jobs by creation time and one getAutomations

serviceVars == << variant, automations, currentAutomationId, olxCodes,
                  systemLogs, activeAutomations, browser, run, calls, stop,
                  stopCalls, faults >>

proberVars == << login, probe, puppeteer, transition, credentials, tester, wss, memStorage, form, listing >>

vars == << serviceVars, proberVars >>

\* The orchestrator's steps leave the prober's state alone, and the reverse.
ProberFrame == UNCHANGED proberVars

ServiceFrame == UNCHANGED serviceVars

(* ---- inputs ---- *)

\* Request bodies of POST /api/automations (plus the broker the earlier
\* variant reads from the job).
Payloads ==
  { [brokerId |-> MainBroker,  olxCode |-> 1,      videoUrl |-> TRUE,  tourUrl |-> TRUE],
    [brokerId |-> OtherBroker, olxCode |-> NoCode, videoUrl |-> FALSE, tourUrl |-> FALSE],
    [brokerId |-> CodelessBroker, olxCode |-> 1,   videoUrl |-> FALSE, tourUrl |-> FALSE] }

IdleRun ==
  [ pc |-> "idle", id |-> NoJob, availableCodes |-> << >>,
    error |-> Null, persisted |-> << >>, emitted |-> << >>,
    outcome |-> Null, stopped |-> FALSE ]

IdleStop == [ pc |-> "idle", id |-> NoJob ]

\* One code of the main broker; the other codes belong to the other broker.
FreshCode(c) ==
  [ brokerId |-> IF c = 1 THEN MainBroker ELSE OtherBroker,
    isUsed |-> FALSE, isActive |-> TRUE,
    currentAutomationId |-> NoJob, univenCode |-> NoJob ]

\* No login response has been received.
NoLogin ==
  [ responseText |-> << >>, redirected |-> FALSE, analysed |-> FALSE,
    result |-> [success |-> FALSE, message |-> Null, recommendation |-> Null] ]

\* Bounds of the browser handle taken on its own: browsers launched, pages
\* opened, calls made, and the concurrent callers.
MaxBrowsers == 2

MaxPages == 2

MaxOps == 3

Tasks == {"t1", "t2"}

NoBrowser == 0

NoPage == 0

IdleTask == [ op |-> Null, pc |-> "idle", browser |-> NoBrowser, page |-> NoPage ]

\* No browser has been launched and no call is in flight.
NoPuppeteer ==
  [ browser |-> NoBrowser, launched |-> << >>, pages |-> << >>,
    task |-> [t \in Tasks |-> IdleTask], ops |-> 0, faults |-> 0 ]

IdleCall == [ pc |-> "idle", step |-> 0, persistFailed |-> FALSE ]

\* One job has been created by POST /api/automations and no call of
\* startAutomation has been made for it.
NoTransition ==
  [ exists |-> TRUE, status |-> "pending", active |-> FALSE,
    call |-> [r \in Runs |-> IdleCall], starts |-> 0, stops |-> 0,
    faults |-> 0 ]

\* No credential is configured and no job has been started.
NoCredentials ==
  [ settings |-> {}, pc |-> "idle", attempted |-> {}, status |-> "pending" ]

\* No job is stored and getAutomations has not been called.
NoListing ==
  [ storage |-> Null, createdAt |-> << >>, now |-> 1, asked |-> FALSE,
    limit |-> 0, of |-> 0, ids |-> << >> ]

\* No login page has been opened.
NoForm ==
  [ platform |-> Null, matching |-> {}, usernameFound |-> FALSE, pc |-> "idle",
    emailIndex |-> 0, passwordIndex |-> 0, filled |-> {}, result |-> Null ]

\* MemStorage as constructed, and no job ever created.
NoMemStorage ==
  [ automations |-> << >>, currentAutomationId |-> 1, created |-> << >> ]

\* Bound of getAutomations taken on its own: the jobs created and the
\* instants of the clock.
MaxListed == 3

\* Bound of a login page taken on its own: the selectors that match on it.
MaxMatches == 3

\* Bounds of a broadcast taken on its own: the connected clients and the
\* broadcasts of one run.
MaxClients == 3

MaxBroadcasts == 2

\* No client is connected and nothing is broadcast.
NoWss ==
  [ readyState |-> << >>, failing |-> {}, pc |-> "idle", next |-> 1,
    sent |-> {}, status |-> "pending", steps |-> 0 ]

\* No method of ConnectivityTester has been called.
NoTester ==
  [ source |-> Null, method |-> Null, username |-> FALSE, password |-> FALSE,
    pc |-> "idle", endpoint |-> 0, error |-> FALSE, result |-> Null,
    faults |-> 0, contacted |-> << >>, answered |-> 0, timedOut |-> {},
    attempted |-> FALSE, message |-> Null, recommendation |-> FALSE,
    logged |-> {}, browser |-> "none" ]

\* No browser-driven probe has read a page.
NoProbe ==
  [ platform |-> Null, currentUrl |-> Null, pageContent |-> {}, pageTitle |-> {},
    analysed |-> FALSE, result |-> [success |-> FALSE, message |-> Null] ]

ProberIdle ==
  /\ login = NoLogin
  /\ probe = NoProbe
  /\ puppeteer = NoPuppeteer
  /\ transition = NoTransition
  /\ listing = NoListing
  /\ form = NoForm
  /\ memStorage = NoMemStorage
  /\ wss = NoWss
  /\ credentials = NoCredentials
  /\ tester = NoTester

ServiceInit ==
  /\ variant \in {"earlier", "later"}
  /\ automations = << >>
  /\ currentAutomationId = 1
  /\ olxCodes = [c \in CodeIds |-> FreshCode(c)]
  /\ systemLogs = EmptyBag
  /\ activeAutomations = {}
  /\ browser = Null
  /\ run = [r \in Runs |-> IdleRun]
  /\ calls = 0
  /\ stop = [s \in Stops |-> IdleStop]
  /\ stopCalls = 0
  /\ faults = 0

Init == ServiceInit /\ ProberIdle

(* ---- storage ---- *)

Exists(id) == id \in DOMAIN automations

\* MemStorage.createAutomation
createAutomation(store, id, p) ==
  (id :> [ status |-> "pending", progress |-> 0, currentStep |-> Null,
           propertyData |-> Null, errorMessage |-> Null, completedAt |-> Null,
           brokerId |-> p.brokerId, olxCode |-> p.olxCode,
           videoUrl |-> p.videoUrl, tourUrl |-> p.tourUrl ]) @@ store

\* MemStorage.updateAutomation: { ...automation, ...updates }; an unknown id
\* leaves the store as it is (the call returns undefined).
Merge(rec, updates) ==
  [f \in DOMAIN rec |-> IF f \in DOMAIN updates THEN updates[f] ELSE rec[f]]

updateAutomation(store, id, updates) ==
  IF id \in DOMAIN store
    THEN [store EXCEPT ![id] = Merge(@, updates)]
    ELSE store

\* MemStorage.updateOlxCode
updateOlxCode(codes, c, updates) ==
  IF c \in DOMAIN codes
    THEN [codes EXCEPT ![c] = Merge(@, updates)]
    ELSE codes

\* MemStorage.getAvailableOlxCodes: the codes of the broker that are active
\* and unused, in insertion (id) order.
getAvailableOlxCodes(codes, brokerId) ==
  SelectSeq([c \in 1..MaxCodes |-> c],
            LAMBDA c : /\ codes[c].brokerId = brokerId
                       /\ codes[c].isActive
                       /\ ~codes[c].isUsed)

\* MemStorage.getOlxCodeByCode: the code string of code c is its id here.
getOlxCodeByCode(codes, code) ==
  IF code \in DOMAIN codes THEN code ELSE NoCode

\* MemStorage.createSystemLog, as AutomationService.log calls it.
createSystemLog(logs, level, message, id) ==
  logs (+) SetToBag({ [level |-> level, message |-> message, automationId |-> id] })

(* ---- statements of a call ---- *)

RunFrame == UNCHANGED << variant, currentAutomationId, calls, stop, stopCalls >> /\ ProberFrame

Entry(level, message) == << level, message >>

\* AutomationService.log, called once per entry, in order.
RECURSIVE logAll(_, _, _)
logAll(logs, entries, id) ==
  IF entries = << >> THEN logs
  ELSE logAll(createSystemLog(logs, Head(entries)[1], Head(entries)[2], id),
              Tail(entries), id)

\* An awaited storage, log, browser or file-system call throws.
Fault == faults < MaxFaults /\ faults' = faults + 1

NoFault == UNCHANGED faults

Goto(r, label) == run' = [run EXCEPT ![r].pc = label] /\ NoFault

\* An error the service itself throws travels to the catch block of
\* startAutomation, and so does one thrown by an awaited call.
Raise(r, e) == run' = [run EXCEPT ![r].pc = "catch", ![r].error = e] /\ NoFault

Throw(r) == run' = [run EXCEPT ![r].pc = "catch", ![r].error = "error"] /\ Fault

\* A call that has returned keeps its argument and how it ended; what it
\* persisted is kept for a completed call.
Returned(rec, result) ==
  [ IdleRun EXCEPT !.pc = "done", !.id = rec.id, !.outcome = result,
                   !.stopped = rec.stopped,
                   !.persisted = IF result = "completed" THEN rec.persisted ELSE << >>,
                   !.emitted = IF result = "completed" THEN rec.emitted ELSE << >> ]

\* The finally block of startAutomation: activeAutomations.delete(id).
Finally(r, result) ==
  /\ activeAutomations' = activeAutomations \ {run[r].id}
  /\ run' = [run EXCEPT ![r] = Returned(run[r], result)]
  /\ IF result = "rejected" THEN Fault ELSE NoFault

\* A function of the service that awaits only log calls (and timers): all
\* entries are written and it returns, or the call for entry k+1 throws.
logs(r, at, next, entries) ==
  /\ run[r].pc = at
  /\ \/ /\ systemLogs' = logAll(systemLogs, entries, run[r].id)
        /\ Goto(r, next)
     \/ \E k \in 0..(Len(entries) - 1) :
          /\ systemLogs' = logAll(systemLogs, SubSeq(entries, 1, k), run[r].id)
          /\ Throw(r)
  /\ UNCHANGED << automations, olxCodes, activeAutomations, browser >>
  /\ RunFrame

\* updateProgress that keeps writing the first step's identifier.
ProgressUpdateStale(step, progress) ==
  [currentStep |-> "connecting_univen", progress |-> progress]

\* updateProgress that writes the share of the work still to do.
ProgressUpdateRemaining(step, progress) ==
  [currentStep |-> step, progress |-> 100 - progress]

\* The object updateProgress persists and broadcasts: { currentStep, progress }.
ProgressUpdate(step, progress) == [currentStep |-> step, progress |-> progress]

\* AutomationService.updateProgress: persist currentStep and progress, then
\* log the message, then broadcast the progress event.  run[r].persisted and
\* run[r].emitted record what this call of startAutomation has persisted and
\* broadcast so far.
updateProgress(r, at, next, step, progress) ==
  /\ run[r].pc = at
  /\ \/ /\ UNCHANGED << automations, systemLogs >>      \* updateAutomation throws
        /\ Throw(r)
     \/ /\ automations' = updateAutomation(automations, run[r].id,
                                            ProgressUpdate(step, progress))
        /\ \/ /\ UNCHANGED systemLogs                   \* the log call throws
              /\ run' = [run EXCEPT ![r].pc = "catch", ![r].error = "error",
                                    ![r].persisted = Append(@, ProgressUpdate(step, progress))]
              /\ Fault
           \/ /\ systemLogs' = createSystemLog(systemLogs, "info", step, run[r].id)
              /\ run' = [run EXCEPT ![r].pc = next,
                                    ![r].persisted = Append(@, ProgressUpdate(step, progress)),
                                    ![r].emitted = Append(@, ProgressUpdate(step, progress))]
              /\ NoFault
  /\ UNCHANGED << olxCodes, activeAutomations, browser >>
  /\ RunFrame

\* catch (error) { await this.log('error', ...); await updateAutomation(failed) }
\* finally { activeAutomations.delete }.  A throw inside the catch block skips
\* the rest of it; the finally block still runs.
catch(r) ==
  /\ run[r].pc = "catch"
  /\ \/ /\ UNCHANGED << systemLogs, automations >>      \* the log call throws
        /\ Finally(r, "rejected")
     \/ /\ systemLogs' = createSystemLog(systemLogs, "error", "failed", run[r].id)
        /\ \/ /\ UNCHANGED automations                  \* updateAutomation throws
              /\ Finally(r, "rejected")
           \/ /\ automations' = updateAutomation(automations, run[r].id,
                                  [status |-> "failed", errorMessage |-> run[r].error])
              /\ Finally(r, "failed")
  /\ UNCHANGED << olxCodes, browser >>
  /\ RunFrame

(* ---- startAutomation ---- *)

Running(r) == run[r].pc \notin {"idle", "done", "warn"}

\* A call takes a slot never used before while there is one.
Free(r) ==
  \/ run[r].pc = "idle" /\ (r = "r1" \/ run["r1"].pc # "idle")
  \/ run[r].pc = "done" /\ \A q \in Runs : run[q].pc # "idle"

\* The synchronous head of startAutomation(automationId).  The later variant
\* returns after a warning when the id is already active; the earlier one
\* has no such test.
startAutomation(r, id) ==
  /\ Free(r)
  /\ calls < MaxCalls
  /\ calls' = calls + 1
  /\ IF variant = "later" /\ id \in activeAutomations
       THEN /\ run' = [run EXCEPT ![r] = [IdleRun EXCEPT !.pc = "warn", !.id = id]]
            /\ UNCHANGED activeAutomations
       ELSE /\ run' = [run EXCEPT ![r] = [IdleRun EXCEPT !.pc = "get", !.id = id]]
            /\ activeAutomations' = activeAutomations \cup {id}
  /\ NoFault

\* POST /api/automations: create the job, then start it.
PostAutomation(r, p) ==
  /\ currentAutomationId <= MaxJobs
  /\ automations' = createAutomation(automations, currentAutomationId, p)
  /\ currentAutomationId' = currentAutomationId + 1
  /\ startAutomation(r, currentAutomationId)
  /\ UNCHANGED << variant, olxCodes, systemLogs, browser, stop, stopCalls >>
  /\ ProberFrame

\* startAutomation called for an id the caller names: a job that exists, or
\* an id that names no job.
StartAutomation(r, id) ==
  /\ Exists(id) \/ id = UnknownJob
  /\ startAutomation(r, id)
  /\ UNCHANGED << variant, automations, currentAutomationId, olxCodes,
                  systemLogs, browser, stop, stopCalls >>
  /\ ProberFrame

\* await this.log('warning', 'already running'); return   (before the try)
AlreadyRunning(r) ==
  /\ run[r].pc = "warn"
  /\ \/ /\ systemLogs' = createSystemLog(systemLogs, "warning", "already running", run[r].id)
        /\ run' = [run EXCEPT ![r] = Returned(run[r], "noop")]
        /\ NoFault
     \/ /\ UNCHANGED systemLogs
        /\ run' = [run EXCEPT ![r] = Returned(run[r], "rejected")]
        /\ Fault
  /\ UNCHANGED << automations, olxCodes, activeAutomations, browser >>
  /\ RunFrame

\* const automation = await this.storage.getAutomation(automationId);
\* if (!automation) throw
getAutomation(r, next) ==
  /\ run[r].pc = "get"
  /\ \/ IF Exists(run[r].id) THEN Goto(r, next) ELSE Raise(r, "not found")
     \/ Throw(r)
  /\ UNCHANGED << automations, olxCodes, systemLogs, activeAutomations, browser >>
  /\ RunFrame

\* await updateAutomation(id, { status: 'processing' }); await this.log('info', 'Starting')
processing(r) ==
  /\ run[r].pc = "processing"
  /\ \/ /\ UNCHANGED << automations, systemLogs >>
        /\ Throw(r)
     \/ /\ automations' = updateAutomation(automations, run[r].id, [status |-> "processing"])
        /\ \/ /\ UNCHANGED systemLogs
              /\ Throw(r)
           \/ /\ systemLogs' = createSystemLog(systemLogs, "info", "Starting automation", run[r].id)
              /\ Goto(r, "s1")
  /\ UNCHANGED << olxCodes, activeAutomations, browser >>
  /\ RunFrame

\* extractPropertyData of the later variant: getBrowser, newPage,
\* try { log; timer; log } finally { page.close() }.
extractPropertyData(r) ==
  /\ run[r].pc = "ext"
  /\ \/ /\ UNCHANGED << browser, systemLogs >>          \* getBrowser throws
        /\ Throw(r)
     \/ /\ browser' = "connected"
        /\ LET entries == << Entry("info", "Navigating to UNIVEN"),
                             Entry("success", "Property data extracted") >>
           IN  \/ /\ systemLogs' = logAll(systemLogs, entries, run[r].id)
                  /\ \/ Goto(r, "s2")
                     \/ Throw(r)               \* page.close throws
               \/ \E k \in 0..1 :
                    /\ systemLogs' = logAll(systemLogs, SubSeq(entries, 1, k), run[r].id)
                    /\ Throw(r)
  /\ UNCHANGED << automations, olxCodes, activeAutomations >>
  /\ RunFrame

PhotoEntries ==
  [i \in 1..NumPhotos |-> Entry("info", "Downloaded photo")]
    \o << Entry("success", "Downloaded photos") >>

\* downloadPhotos of the later variant: the setting decides; a failure inside
\* the try block is logged as a warning and the function still returns.
downloadPhotos(r) ==
  /\ run[r].pc = "dl"
  /\ \/ /\ UNCHANGED systemLogs                         \* getSettings throws
        /\ Throw(r)
     \/ \E downloadPhotosSetting \in BOOLEAN :
          IF ~downloadPhotosSetting
            THEN \/ /\ systemLogs' = createSystemLog(systemLogs, "info",
                                       "Photo download disabled", run[r].id)
                    /\ Goto(r, "s4")
                 \/ /\ UNCHANGED systemLogs
                    /\ Throw(r)
            ELSE \/ /\ systemLogs' = logAll(systemLogs, PhotoEntries, run[r].id)
                    /\ Goto(r, "s4")
                 \/ \E k \in 0..NumPhotos :
                      \/ /\ systemLogs' =
                              logAll(systemLogs,
                                     SubSeq(PhotoEntries, 1, k)
                                       \o << Entry("warning", "Failed to download photos") >>,
                                     run[r].id)
                         /\ run' = [run EXCEPT ![r].pc = "s4"]
                         /\ Fault
                      \/ /\ systemLogs' = logAll(systemLogs, SubSeq(PhotoEntries, 1, k), run[r].id)
                         /\ faults + 2 <= MaxFaults     \* the warning log throws too
                         /\ faults' = faults + 2
                         /\ run' = [run EXCEPT ![r].pc = "catch", ![r].error = "error"]
  /\ UNCHANGED << automations, olxCodes, activeAutomations, browser >>
  /\ RunFrame

PublishEntries(job) ==
  << Entry("info", "Creating listing"), Entry("info", "Filling property details"),
     Entry("info", "Uploading photos") >>
    \o (IF job.videoUrl THEN << Entry("info", "Adding video URL") >> ELSE << >>)
    \o (IF job.tourUrl THEN << Entry("info", "Adding virtual tour URL") >> ELSE << >>)
    \o << Entry("info", "Publishing listing"), Entry("success", "Listing created") >>

\* createOLXListing of the later variant: getBrowser, newPage,
\* try { log; getOlxCodeByCode; if (!olxCode) throw; logs } finally { close }.
\* It writes no code record.
createOLXListingLater(r) ==
  /\ run[r].pc = "olx"
  /\ \/ /\ UNCHANGED << browser, systemLogs >>          \* getBrowser throws
        /\ Throw(r)
     \/ /\ browser' = "connected"
        /\ LET job == automations[run[r].id]
               nav == << Entry("info", "Navigating to OLX Pro") >>
               all == nav \o PublishEntries(job)
           IN  \/ /\ UNCHANGED systemLogs
                  /\ Throw(r)
               \/ /\ getOlxCodeByCode(olxCodes, job.olxCode) = NoCode
                  /\ systemLogs' = logAll(systemLogs, nav, run[r].id)
                  /\ Raise(r, "OLX code not found")
               \/ /\ systemLogs' = logAll(systemLogs, nav, run[r].id)
                  /\ Throw(r)                  \* getOlxCodeByCode throws
               \/ /\ getOlxCodeByCode(olxCodes, job.olxCode) # NoCode
                  /\ \/ \E k \in 1..(Len(all) - 1) :
                          /\ systemLogs' = logAll(systemLogs, SubSeq(all, 1, k), run[r].id)
                          /\ Throw(r)
                     \/ /\ systemLogs' = logAll(systemLogs, all, run[r].id)
                        /\ \/ Goto(r, "s6")
                           \/ Throw(r)         \* page.close throws
  /\ UNCHANGED << automations, olxCodes, activeAutomations >>
  /\ RunFrame

\* The last statements of the try block of the later variant.
completeLater(r) ==
  /\ run[r].pc = "complete"
  /\ \/ /\ UNCHANGED << automations, systemLogs, activeAutomations >>
        /\ Throw(r)
     \/ /\ automations' = updateAutomation(automations, run[r].id,
                            [status |-> "completed", progress |-> 100,
                             propertyData |-> "set", completedAt |-> "set"])
        /\ \/ /\ UNCHANGED << systemLogs, activeAutomations >>
              /\ run' = [run EXCEPT ![r].pc = "catch", ![r].error = "error",
                                    ![r].persisted = Append(@, ProgressUpdate(Null, 100))]
              /\ Fault
           \/ /\ systemLogs' = createSystemLog(systemLogs, "success", "completed", run[r].id)
              /\ activeAutomations' = activeAutomations \ {run[r].id}
              /\ run' = [run EXCEPT ![r] =
                           Returned([run[r] EXCEPT
                                       !.persisted = Append(@, ProgressUpdate(Null, 100))],
                                    "completed")]
              /\ NoFault
  /\ UNCHANGED << olxCodes, browser >>
  /\ RunFrame

startAutomationLater(r) ==
  /\ variant = "later"
  /\ \/ AlreadyRunning(r)
     \/ getAutomation(r, "processing")
     \/ processing(r)
     \/ updateProgress(r, "s1", "ext", "connecting_univen", 10)
     \/ extractPropertyData(r)
     \/ updateProgress(r, "s2", "s3", "extracting_data", 30)
     \/ updateProgress(r, "s3", "dl", "downloading_photos", 50)
     \/ downloadPhotos(r)
     \/ updateProgress(r, "s4", "s5", "connecting_olx", 70)
     \/ updateProgress(r, "s5", "olx", "creating_listing", 85)
     \/ createOLXListingLater(r)
     \/ updateProgress(r, "s6", "complete", "finalizing", 100)
     \/ completeLater(r)
     \/ catch(r)

(* ---- the earlier variant ---- *)

\* getSettings; if (!user || !password) throw; then the probe of
\* ConnectivityTester, which logs without a job id and answers success or
\* failure (and throws when the log call of its own catch block throws).
\* A failed UNIVEN probe throws; a failed OLX probe is logged as a warning.
connect(r, at, next, missing, failed) ==
  /\ run[r].pc = at
  /\ \/ /\ UNCHANGED systemLogs                         \* getSettings throws
        /\ Throw(r)
     \/ /\ UNCHANGED systemLogs                         \* credentials missing
        /\ Raise(r, missing)
     \/ /\ systemLogs' = createSystemLog(systemLogs, "info", "probe", NoJob)
        /\ \/ Goto(r, next)                             \* success
           \/ Throw(r)                         \* the prober throws
     \/ /\ failed # Null                                \* failure: throw
        /\ systemLogs' = createSystemLog(systemLogs, "info", "probe", NoJob)
        /\ Raise(r, failed)
     \/ /\ failed = Null                                \* failure: warn, go on
        /\ \/ /\ systemLogs' =
                   createSystemLog(createSystemLog(systemLogs, "info", "probe", NoJob),
                                   "warning", "OLX connection warning", run[r].id)
              /\ Goto(r, next)
           \/ /\ systemLogs' = createSystemLog(systemLogs, "info", "probe", NoJob)
              /\ Throw(r)
  /\ UNCHANGED << automations, olxCodes, activeAutomations, browser >>
  /\ RunFrame

\* await this.log('info', 'Creating OLX listing');
\* const availableCodes = await getAvailableOlxCodes(automation.brokerId);
\* if (availableCodes.length === 0) throw
availableOlxCodes(r) ==
  /\ run[r].pc = "olx_codes"
  /\ \/ /\ UNCHANGED systemLogs
        /\ Throw(r)
     \/ /\ systemLogs' = createSystemLog(systemLogs, "info", "Creating OLX listing", run[r].id)
        /\ \/ Throw(r)                         \* getAvailableOlxCodes throws
           \/ LET codes == getAvailableOlxCodes(olxCodes, automations[run[r].id].brokerId)
              IN  IF Len(codes) = 0
                    THEN Raise(r, "no OLX code available")
                    ELSE /\ run' = [run EXCEPT ![r].pc = "olx_mark",
                                                ![r].availableCodes = codes]
                         /\ NoFault
  /\ UNCHANGED << automations, olxCodes, activeAutomations, browser >>
  /\ RunFrame

\* const olxCode = availableCodes[0];
\* await updateOlxCode(olxCode.id, { isUsed: true, currentAutomationId, univenCode });
\* await this.log('info', 'Listing created')
markOlxCode(r) ==
  /\ run[r].pc = "olx_mark"
  /\ \/ /\ UNCHANGED << olxCodes, systemLogs >>
        /\ Throw(r)
     \/ /\ olxCodes' = updateOlxCode(olxCodes, Head(run[r].availableCodes),
                         [isUsed |-> TRUE, currentAutomationId |-> run[r].id,
                          univenCode |-> run[r].id])
        /\ \/ /\ UNCHANGED systemLogs
              /\ Throw(r)
           \/ /\ systemLogs' = createSystemLog(systemLogs, "info", "Listing created", run[r].id)
              /\ run' = [run EXCEPT ![r].pc = "s6", ![r].availableCodes = << >>]
              /\ NoFault
  /\ UNCHANGED << automations, activeAutomations, browser >>
  /\ RunFrame

\* The last statement of the try block of the earlier variant.
completeEarlier(r) ==
  /\ run[r].pc = "complete"
  /\ \/ /\ UNCHANGED << automations, activeAutomations >>
        /\ Throw(r)
     \/ /\ automations' = updateAutomation(automations, run[r].id,
                            [status |-> "completed", completedAt |-> "set"])
        /\ Finally(r, "completed")
  /\ UNCHANGED << olxCodes, systemLogs, browser >>
  /\ RunFrame

startAutomationEarlier(r) ==
  /\ variant = "earlier"
  /\ \/ getAutomation(r, "s1")
     \/ updateProgress(r, "s1", "s1b", "connecting_univen", 10)
     \/ updateProgress(r, "s1b", "univen", "connecting_univen", 20)
     \/ connect(r, "univen", "s2", "UNIVEN credentials not configured",
                "UNIVEN connection failed")
     \/ updateProgress(r, "s2", "ext", "extracting_data", 40)
     \/ logs(r, "ext", "s3", << Entry("info", "Extracting data"),
                                Entry("info", "Data extracted") >>)
     \/ updateProgress(r, "s3", "dl", "downloading_photos", 60)
     \/ logs(r, "dl", "s4", << Entry("info", "Downloading photos") >>)
     \/ updateProgress(r, "s4", "olx", "connecting_olx", 80)
     \/ connect(r, "olx", "s5", "OLX credentials not configured", Null)
     \/ updateProgress(r, "s5", "olx_codes", "creating_listing", 90)
     \/ availableOlxCodes(r)
     \/ markOlxCode(r)
     \/ updateProgress(r, "s6", "complete", "finalizing", 100)
     \/ completeEarlier(r)
     \/ catch(r)

(* ---- stopAutomation ---- *)

StopFrame == UNCHANGED << variant, currentAutomationId, olxCodes, browser, calls >> /\ ProberFrame

\* if (this.activeAutomations.has(id)) { this.activeAutomations.delete(id); ...
stopAutomation(s, id) ==
  /\ stop[s].pc \in {"idle", "done"}
  /\ stopCalls < MaxStops
  /\ Exists(id) \/ id = UnknownJob
  /\ stopCalls' = stopCalls + 1
  /\ IF id \in activeAutomations
       THEN /\ activeAutomations' = activeAutomations \ {id}
            /\ stop' = [stop EXCEPT ![s] = [pc |-> "update", id |-> id]]
            /\ run' = [r \in Runs |->
                         IF Running(r) /\ run[r].id = id
                           THEN [run[r] EXCEPT !.stopped = TRUE] ELSE run[r]]
       ELSE /\ stop' = [stop EXCEPT ![s] = [pc |-> "done", id |-> id]]
            /\ UNCHANGED << activeAutomations, run >>
  /\ UNCHANGED << automations, systemLogs, faults >>
  /\ StopFrame

StoppedStatus == IF variant = "earlier" THEN "stopped" ELSE "failed"

\* A stop that writes the status without the reason.
StopUpdatesNoReason == [status |-> StoppedStatus]

\* { status, errorMessage: 'Automation stopped by user' }
StopUpdates == [status |-> StoppedStatus, errorMessage |-> StopReason]

\* await updateAutomation(id, { status, errorMessage: 'Automation stopped by user' });
\* await this.log('warning', 'stopped by user', id)
stopUpdate(s) ==
  /\ stop[s].pc = "update"
  /\ \/ UNCHANGED << automations, systemLogs >> /\ Fault    \* updateAutomation throws
     \/ /\ automations' = updateAutomation(automations, stop[s].id, StopUpdates)
        /\ \/ UNCHANGED systemLogs /\ Fault                   \* the log call throws
           \/ /\ systemLogs' = createSystemLog(systemLogs, "warning", "stopped by user",
                                                stop[s].id)
              /\ NoFault
  /\ stop' = [stop EXCEPT ![s].pc = "done"]
  /\ UNCHANGED << activeAutomations, run, stopCalls >>
  /\ StopFrame

(* ---- the system ---- *)

Next ==
  \/ \E r \in Runs, p \in Payloads : PostAutomation(r, p)
  \/ \E r \in Runs, id \in JobIds \cup {UnknownJob} : StartAutomation(r, id)
  \/ \E r \in Runs : startAutomationLater(r)
  \/ \E r \in Runs : startAutomationEarlier(r)
  \/ \E s \in Stops, id \in JobIds \cup {UnknownJob} : stopAutomation(s, id)
  \/ \E s \in Stops : stopUpdate(s)

Spec == Init /\ [][Next]_vars

(* ---- properties ---- *)

\* The step identifiers a call persisted (or broadcast), in order.
StepsOf(history) ==
  LET kept == SelectSeq(history, LAMBDA u : u.currentStep # Null)
  IN  [i \in 1..Len(kept) |-> kept[i].currentStep]

\* A sequence with each block of adjacent equal elements reduced to one.
RECURSIVE Collapse(_)
Collapse(seq) ==
  IF Len(seq) <= 1 THEN seq
  ELSE IF seq[1] = seq[2] THEN Collapse(Tail(seq))
       ELSE << seq[1] >> \o Collapse(Tail(seq))

Completed(r) == run[r].pc = "done" /\ run[r].outcome = "completed"

\* The step of call r is its call: the synchronous head of startAutomation.
IsCall(r) == calls' = calls + 1 /\ run'[r] # run[r]

\* C1, as stated: a call of startAutomation that ends by writing status
\* 'completed' has persisted as currentStep, and broadcast, exactly the six
\* steps of StepOrder, each once, in order.
C1_StepsExactlyOnce ==
  \A r \in Runs :
    Completed(r) =>
      /\ StepsOf(run[r].persisted) = StepOrder
      /\ StepsOf(run[r].emitted) = StepOrder

\* C1, amended: the later variant persists and broadcasts exactly StepOrder;
\* the earlier variant persists and broadcasts connecting_univen twice (at
\* progress 10 and 20) and then the other five steps once each; in both,
\* the sequence with adjacent repeats reduced to one is StepOrder.
C1_StepsInOrder ==
  \A r \in Runs :
    Completed(r) =>
      LET expected == IF variant = "later" THEN StepOrder
                      ELSE << "connecting_univen" >> \o StepOrder
      IN  /\ StepsOf(run[r].persisted) = expected
          /\ StepsOf(run[r].emitted) = expected
          /\ Collapse(StepsOf(run[r].persisted)) = StepOrder
          /\ Collapse(StepsOf(run[r].emitted)) = StepOrder

\* A completed call that persisted more step identifiers than there are steps.
C1_CompletedWithRepeat ==
  \E r \in Runs :
    Completed(r) /\ Len(StepsOf(run[r].persisted)) > Len(StepOrder)

\* C2: when startAutomation(id) is called while id is in the active set, the
\* call only writes one warning log and returns: it starts no workflow, and
\* the jobs, the codes and the active set stay as they are.
C2_SecondStartIsNoOp ==
  [][ \A r \in Runs :
        /\ (IsCall(r) /\ run'[r].id \in activeAutomations) => run'[r].pc = "warn"
        /\ (run[r].pc = "warn" /\ run'[r].pc = "done") =>
             /\ UNCHANGED << automations, olxCodes, activeAutomations >>
             /\ \/ faults' > faults
                \/ systemLogs' = createSystemLog(systemLogs, "warning",
                                                 "already running", run[r].id)
    ]_vars

\* C3: a code that one job has marked used is not marked again: its record,
\* and so its currentAutomationId, is never overwritten by a second job.
C3_ClaimIsExclusive ==
  [][ \A c \in CodeIds : olxCodes[c].isUsed => olxCodes'[c] = olxCodes[c] ]_vars

\* C4: when a call of startAutomation whose try block threw returns, the
\* job has status 'failed', its errorMessage is set and its id is not in the
\* active set.
C4_ThrowEndsFailed ==
  [][ \A r \in Runs :
        (run[r].pc = "catch" /\ run'[r].pc = "done" /\ Exists(run[r].id)) =>
          /\ automations'[run[r].id].status = "failed"
          /\ automations'[run[r].id].errorMessage # Null
          /\ run[r].id \notin activeAutomations'
    ]_vars

\* C5: when a call of startAutomation for an existing job ends, the job is
\* in a terminal status and its id is not in the active set.
C5_EndsTerminal ==
  [][ \A r \in Runs :
        (Running(r) /\ run'[r].pc = "done" /\ Exists(run[r].id)) =>
          /\ automations'[run[r].id].status \in TerminalStatus
          /\ run[r].id \notin activeAutomations'
    ]_vars

\* The step is a call of stopAutomation by s.
IsStop(s) == stopCalls' = stopCalls + 1 /\ stop'[s] # stop[s]

\* C6: stopAutomation(id) with id in the active set removes id from the
\* active set and, when its storage write returns, the job has status
\* 'stopped' or 'failed' and the user-initiated reason; with id not in the
\* active set it leaves the jobs, the active set and the logs as they are.
C6_Stop ==
  [][ \A s \in Stops :
        /\ IsStop(s) =>
             IF stop'[s].id \in activeAutomations
               THEN /\ stop'[s].pc = "update"
                    /\ activeAutomations' = activeAutomations \ {stop'[s].id}
               ELSE /\ stop'[s].pc = "done"
                    /\ UNCHANGED << automations, activeAutomations, systemLogs >>
        /\ (stop[s].pc = "update" /\ stop'[s].pc = "done" /\ Exists(stop[s].id)) =>
             \/ automations' = automations /\ faults' > faults
             \/ /\ automations'[stop[s].id].status \in {"stopped", "failed"}
                /\ automations'[stop[s].id].errorMessage = StopReason
    ]_vars

\* stopAutomation has acted on a job with an active call and has returned.
C6_StoppedActiveJob ==
  \E s \in Stops :
    /\ stop[s].pc = "done"
    /\ Exists(stop[s].id)
    /\ automations[stop[s].id].errorMessage = StopReason
    /\ stop[s].id \notin activeAutomations
    /\ \E r \in Runs : run[r].id = stop[s].id /\ run[r].stopped

\* C7: a call of startAutomation whose id stopAutomation has removed from
\* the active set persists no further step and marks no code.
C7_StoppedRunStartsNoStep ==
  [][ \A r \in Runs :
        (Running(r) /\ run[r].stopped /\ run'[r] # run[r]) =>
          /\ Len(run'[r].persisted) <= Len(run[r].persisted)
          /\ olxCodes' = olxCodes
    ]_vars

\* The step is the storage write of a stopAutomation(id).
IsStopWrite(id) ==
  \E s \in Stops : stop[s].pc = "update" /\ stop[s].id = id /\ stop'[s].pc = "done"

\* C8: a job record whose status is completed, failed or stopped is not
\* written again, except by the write of stopAutomation.
C8_TerminalIsFinal ==
  [][ \A id \in DOMAIN automations :
        (automations[id].status \in TerminalStatus /\ ~IsStopWrite(id)) =>
          automations'[id] = automations[id]
    ]_vars

\* C9: within one call of startAutomation, each persisted progress value is
\* greater than or equal to the one persisted before it.
C9_ProgressNonDecreasing ==
  \A r \in Runs :
    \A i \in 1..(Len(run[r].persisted) - 1) :
      run[r].persisted[i].progress <= run[r].persisted[i + 1].progress

\* A call that has persisted the progress of every step.
C9_AllStepsPersisted ==
  \E r \in Runs : Len(run[r].persisted) >= Len(StepOrder)

\* The codes marked used for job id.
ClaimedBy(codes, id) ==
  { c \in CodeIds : codes[c].isUsed /\ codes[c].currentAutomationId = id }

\* C10: when a call of startAutomation ends by writing 'completed', the job
\* has status 'completed', progress 100 and completedAt set, and exactly one
\* code, of the job's broker, is marked used with the job's id.
C10_CompletedClaimsOneCode ==
  [][ \A r \in Runs :
        (Running(r) /\ Completed(r)') =>
          LET id == run[r].id
          IN  /\ automations'[id].status = "completed"
              /\ automations'[id].progress = 100
              /\ automations'[id].completedAt # Null
              /\ Cardinality(ClaimedBy(olxCodes', id)) = 1
              /\ \A c \in ClaimedBy(olxCodes', id) :
                   olxCodes'[c].brokerId = automations'[id].brokerId
    ]_vars

\* Call r is about to run createOLXListing, the publishing step.
AtPublish(r) ==
  \/ variant = "later" /\ run[r].pc = "olx"
  \/ variant = "earlier" /\ run[r].pc = "olx_codes"

\* C11: when createOLXListing runs for a job whose broker has no available
\* code, it throws the no-available-code error (unless an awaited call throws
\* first) and modifies no code record.
C11_NoCodeFails ==
  [][ \A r \in Runs :
        ( /\ AtPublish(r)
          /\ run'[r] # run[r]
          /\ Exists(run[r].id)
          /\ Len(getAvailableOlxCodes(olxCodes, automations[run[r].id].brokerId)) = 0 ) =>
          /\ olxCodes' = olxCodes
          /\ run'[r].pc = "catch"
          /\ faults' = faults => run'[r].error = "no OLX code available"
    ]_vars

\* The step of call r is its first use of the target system: the OLX probe
\* of the earlier variant, the OLX page of the later variant.
TargetCall(r) ==
  /\ run[r].pc = "olx"
  /\ run'[r].pc # "olx"
  /\ systemLogs' # systemLogs \/ browser' # browser

\* C12: when a call first uses the target system, a code is already marked
\* used and bound to the job's id.
C12_ClaimBeforeTarget ==
  [][ \A r \in Runs : TargetCall(r) => ClaimedBy(olxCodes, run[r].id) # {} ]_vars

(* ---- testUnivenConnection: the response-code branch ---- *)

\* A response text is a sequence of pieces: the literals the code tests for,
\* a space, the separator, a letter, and two runs of 31 characters.
MaxPieces == 3

LongDigits == "0000000000000000000000000000000"
LongScript == "var a = 1; var b = 2; go(a, b);"

Pieces ==
  { "0", "1", "2", "3", "4", "-1", "erro", " ", "!-!", "x",
    "eval(", "window.open", "location.href", "redirect",
    "parent.", "top.", "window.", "document.", LongDigits, LongScript }

Texts == UNION { [1..n -> Pieces] : n \in 0..MaxPieces }

\* The number of characters of a piece.
PieceLength(c) ==
  CASE c \in {"0", "1", "2", "3", "4", " ", "x"} -> 1
    [] c = "-1" -> 2
    [] c = "!-!" -> 3
    [] c \in {"erro", "top."} -> 4
    [] c = "eval(" -> 5
    [] c \in {"parent.", "window."} -> 7
    [] c = "redirect" -> 8
    [] c = "document." -> 9
    [] c = "window.open" -> 11
    [] c = "location.href" -> 13
    [] c \in {LongDigits, LongScript} -> 31

RECURSIVE length(_)
length(text) == IF text = << >> THEN 0 ELSE PieceLength(Head(text)) + length(Tail(text))

\* String.prototype.trim
RECURSIVE trimStart(_)
trimStart(text) ==
  IF text # << >> /\ Head(text) = " " THEN trimStart(Tail(text)) ELSE text

RECURSIVE trimEnd(_)
trimEnd(text) ==
  IF text # << >> /\ text[Len(text)] = " "
    THEN trimEnd(SubSeq(text, 1, Len(text) - 1)) ELSE text

trim(text) == trimEnd(trimStart(text))

\* text.split("!-!")[0]
RECURSIVE firstPart(_)
firstPart(text) ==
  IF text = << >> \/ Head(text) = "!-!" THEN << >>
  ELSE << Head(text) >> \o firstPart(Tail(text))

\* String.prototype.includes, for the literals the code looks for.
includes(text, literal) ==
  \E i \in 1..Len(text) :
    \/ text[i] = literal
    \/ text[i] = "window.open" /\ literal = "window."

\* responseCode.match(/^[0-9]+$/)
allDigits(text) ==
  /\ text # << >>
  /\ \A i \in 1..Len(text) : text[i] \in {"0", "1", "2", "3", "4", LongDigits}

\* A long response that starts one character too late.
LongResponseLate == 30 + 1

\* if (responseCode.length > 30 && ...): one character more makes a long response.
LongResponse == 30

Verdict(success, message, recommendation) ==
  [success |-> success, message |-> message, recommendation |-> recommendation]

\* The chain of tests on responseCode, in the order of the code.
classifyResponseCode(responseCode) ==
  IF responseCode = << "1" >> THEN Verdict(FALSE, "incorrect password", Null)
  ELSE IF responseCode = << "2" >> THEN Verdict(FALSE, "incorrect data", Null)
  ELSE IF responseCode = << "3" >> THEN Verdict(FALSE, "access limit exceeded", Null)
  ELSE IF responseCode = << "4" >> THEN Verdict(FALSE, "registration disabled", Null)
  ELSE IF responseCode = << "-1" >> THEN Verdict(FALSE, "maintenance", Null)
  ELSE IF includes(responseCode, "eval(") \/ includes(responseCode, "window.open")
    THEN Verdict(TRUE, "redirect script", Null)
  ELSE IF responseCode = << >> \/ responseCode = << "erro" >>
    THEN Verdict(FALSE, "system error or invalid credentials", Null)
  ELSE IF trim(responseCode) = << "0" >> THEN Verdict(TRUE, "code 0", Null)
  ELSE IF \/ includes(responseCode, "window.open")
          \/ includes(responseCode, "location.href")
          \/ includes(responseCode, "eval(")
          \/ includes(responseCode, "redirect")
    THEN Verdict(TRUE, "redirect script", Null)
  ELSE IF \/ includes(responseCode, "parent.")
          \/ includes(responseCode, "top.")
          \/ includes(responseCode, "window.")
          \/ includes(responseCode, "document.")
    THEN Verdict(TRUE, "interface script", Null)
  ELSE IF length(responseCode) > LongResponse /\ ~allDigits(responseCode)
    THEN Verdict(TRUE, "complex script", Null)
  ELSE Verdict(FALSE, "unrecognized response", "manual_verification")

\* const responseCode = responseText.trim().split("!-!")[0]
responseCodeOf(responseText) == firstPart(trim(responseText))

\* Step 5 of testUnivenConnection: a 301/302 to a logged-in page is a
\* success whatever the body; otherwise the body's response code decides.
analyseLoginResponse(redirected, responseText) ==
  IF redirected THEN Verdict(TRUE, "redirected to logged-in area", Null)
  ELSE classifyResponseCode(responseCodeOf(responseText))

AnalyseLogin ==
  /\ ~login.analysed
  /\ login' = [login EXCEPT !.analysed = TRUE,
                            !.result = analyseLoginResponse(login.redirected,
                                                            login.responseText)]
  /\ UNCHANGED << probe, puppeteer, transition, credentials, tester, wss, memStorage, form, listing >>
  /\ ServiceFrame

InitLogin ==
  /\ ServiceInit
  /\ \E text \in Texts, redirected \in BOOLEAN :
       login = [NoLogin EXCEPT !.responseText = text, !.redirected = redirected]
  /\ probe = NoProbe
  /\ puppeteer = NoPuppeteer
  /\ transition = NoTransition
  /\ listing = NoListing
  /\ form = NoForm
  /\ memStorage = NoMemStorage
  /\ wss = NoWss
  /\ credentials = NoCredentials
  /\ tester = NoTester

NextLogin == AnalyseLogin

SpecLogin == InitLogin /\ [][NextLogin]_vars

\* The token of the claim: the text before the first separator.
Token == responseCodeOf(login.responseText)

Analysed == login.analysed

Scripted(token) ==
  \E literal \in {"eval(", "window.open", "location.href", "redirect",
                  "parent.", "top.", "window.", "document."} :
    includes(token, literal)

Univen == "UNIVEN"

OlxPro == "OLX Pro"

Platforms == {Univen, OlxPro}

\* The login pages the probes compare page.url() with.
LoginUrls(platform) ==
  IF platform = Univen
    THEN {"https://univenweb.com.br/", "https://univenweb.com.br/index.html"}
    ELSE {"https://canalpro.grupozap.com/login", "https://canalpro.grupozap.com/"}

\* Addresses the page can be at after the form was submitted: the login
\* pages, one address of the logged-in area and one that holds no keyword.
Urls(platform) ==
  LoginUrls(platform) \cup
    ( IF platform = Univen
        THEN {"https://univenweb.com.br/dashboard", "https://univenweb.com.br/x"}
        ELSE {"https://canalpro.grupozap.com/painel", "https://canalpro.grupozap.com/x"} )

\* currentUrl.includes(word)
urlIncludes(currentUrl, word) ==
  << currentUrl, word >> \in
    { << "https://univenweb.com.br/dashboard", "dashboard" >>,
      << "https://canalpro.grupozap.com/painel", "painel" >> }

\* The page's lower-cased content and title, as the set of the indicator
\* literals they contain; no literal of these sets contains another.
ContentLiterals == {"logout", "painel", "senha incorreta", "invalid", "error"}

TitleLiterals == {"dashboard", "sistema"}

\* indicators.filter(indicator => indicator).length
count(indicators) == Cardinality({i \in DOMAIN indicators : indicators[i]})

successIndicators(platform, currentUrl, pageContent, pageTitle) ==
  IF platform = Univen
    THEN << urlIncludes(currentUrl, "dashboard"),
            urlIncludes(currentUrl, "home"),
            urlIncludes(currentUrl, "principal"),
            urlIncludes(currentUrl, "menu"),
            urlIncludes(currentUrl, "sistema"),
            currentUrl \notin LoginUrls(Univen),
            "logout" \in pageContent,
            "sair" \in pageContent,
            "bem-vindo" \in pageContent,
            "dashboard" \in pageContent,
            "menu principal" \in pageContent,
            "sistema" \in pageTitle,
            "dashboard" \in pageTitle,
            "principal" \in pageTitle >>
    ELSE << urlIncludes(currentUrl, "dashboard"),
            urlIncludes(currentUrl, "painel"),
            urlIncludes(currentUrl, "admin"),
            urlIncludes(currentUrl, "portal"),
            urlIncludes(currentUrl, "home"),
            urlIncludes(currentUrl, "main"),
            currentUrl \notin LoginUrls(OlxPro),
            "logout" \in pageContent,
            "sair" \in pageContent,
            "bem-vindo" \in pageContent,
            "dashboard" \in pageContent,
            "painel" \in pageContent,
            "meus anuncios" \in pageContent,
            "olx pro" \in pageContent,
            "canal pro" \in pageContent,
            "dashboard" \in pageTitle,
            "painel" \in pageTitle,
            "portal" \in pageTitle,
            "olx pro" \in pageTitle >>

\* The failure indicators without the two that compare the address.
errorIndicatorsOfContent(platform, currentUrl, pageContent) ==
  << "senha incorreta" \in pageContent,
     "credenciais invalidas" \in pageContent,
     "invalid" \in pageContent,
     "incorrect" \in pageContent,
     "failed" \in pageContent,
     platform = OlxPro /\ "error" \in pageContent >>

errorIndicators(platform, currentUrl, pageContent) ==
  IF platform = Univen
    THEN << "usuario invalido" \in pageContent,
            "senha incorreta" \in pageContent,
            "credenciais invalidas" \in pageContent,
            "erro de login" \in pageContent,
            "login invalido" \in pageContent,
            "dados incorretos" \in pageContent,
            "acesso negado" \in pageContent,
            "invalid" \in pageContent,
            "incorrect" \in pageContent,
            "failed" \in pageContent,
            currentUrl = "https://univenweb.com.br/",
            currentUrl = "https://univenweb.com.br/index.html" >>
    ELSE << "email invalido" \in pageContent,
            "senha incorreta" \in pageContent,
            "credenciais invalidas" \in pageContent,
            "erro de login" \in pageContent,
            "login invalido" \in pageContent,
            "dados incorretos" \in pageContent,
            "acesso negado" \in pageContent,
            "usuario nao encontrado" \in pageContent,
            "invalid" \in pageContent,
            "incorrect" \in pageContent,
            "failed" \in pageContent,
            "error" \in pageContent,
            currentUrl = "https://canalpro.grupozap.com/login",
            currentUrl = "https://canalpro.grupozap.com/" >>

LoginSucceeded == "login realizado com sucesso"

InvalidCredentials == "credenciais invalidas"

Inconclusive == "nao foi possivel confirmar o login; tente fazer login manualmente no site"

\* A decision that looks at the success indicators alone.
indicatorDecisionSuccessFirst(successCount, errorCount) ==
  IF successCount > 0 THEN [success |-> TRUE, message |-> LoginSucceeded]
  ELSE IF errorCount > 0 THEN [success |-> FALSE, message |-> InvalidCredentials]
  ELSE [success |-> FALSE, message |-> Inconclusive]

\* PASSO 9: the result the probe returns for the two counts.
indicatorDecision(successCount, errorCount) ==
  IF successCount > 0 /\ errorCount = 0
    THEN [success |-> TRUE, message |-> LoginSucceeded]
  ELSE IF errorCount > 0
    THEN [success |-> FALSE, message |-> InvalidCredentials]
  ELSE [success |-> FALSE, message |-> Inconclusive]

successCount ==
  count(successIndicators(probe.platform, probe.currentUrl,
                          probe.pageContent, probe.pageTitle))

errorCount ==
  count(errorIndicators(probe.platform, probe.currentUrl, probe.pageContent))

\* The probe has read the page (PASSO 8) and decides (PASSO 9).
AnalyseIndicators ==
  /\ probe.platform # Null
  /\ ~probe.analysed
  /\ probe' = [probe EXCEPT !.analysed = TRUE,
                            !.result = indicatorDecision(successCount, errorCount)]
  /\ UNCHANGED << login, puppeteer, transition, credentials, tester, wss, memStorage, form, listing >>
  /\ ServiceFrame

InitIndicators ==
  /\ ServiceInit
  /\ login = NoLogin
  /\ puppeteer = NoPuppeteer
  /\ transition = NoTransition
  /\ listing = NoListing
  /\ form = NoForm
  /\ memStorage = NoMemStorage
  /\ wss = NoWss
  /\ credentials = NoCredentials
  /\ tester = NoTester
  /\ \E platform \in Platforms :
       \E currentUrl \in Urls(platform), pageContent \in SUBSET ContentLiterals,
          pageTitle \in SUBSET TitleLiterals :
         probe = [NoProbe EXCEPT !.platform = platform, !.currentUrl = currentUrl,
                                 !.pageContent = pageContent, !.pageTitle = pageTitle]

NextIndicators == AnalyseIndicators

SpecIndicators == InitIndicators /\ [][NextIndicators]_vars

\* C14: in the browser-driven probe, a failure-indicator count above 0 gives
\* success=false, also when success indicators were found; otherwise a
\* success-indicator count above 0 gives success=true; otherwise the result
\* is the inconclusive one.
C14_IndicatorDecision ==
  probe.analysed =>
    IF errorCount > 0 THEN ~probe.result.success
    ELSE IF successCount > 0 THEN probe.result.success
    ELSE ~probe.result.success /\ probe.result.message = Inconclusive

\* C14 witness: a page with indicators of both kinds was judged a failure.
C14_BothKindsIsFailure ==
  probe.analysed /\ errorCount > 0 /\ successCount > 0 /\ ~probe.result.success

\* The page is at a login address, which is a failure indicator, or it is
\* not, which is a success indicator: the two counts are never both 0.
SomeIndicatorFound == probe.platform # Null => successCount + errorCount > 0

(* ---- the shared browser: getBrowser, pages, cleanup ---- *)

\* The methods that open a page, and cleanup.
PageOps == {"extractPropertyData", "createOLXListing", "testOlxConnection"}

Ops == PageOps \cup {"cleanup"}

Connected(b) == b # NoBrowser /\ puppeteer.launched[b].connected

\* An awaited call of the browser layer may reject.
BrowserFault == puppeteer.faults < MaxFaults

\* The task's next position; what else changes is given by the caller.
At(p, t, pc) == [p EXCEPT !.task[t].pc = pc]

Faulted(p) == [p EXCEPT !.faults = @ + 1]

\* The call has returned or thrown to its caller.
Return(p, t) == [p EXCEPT !.task[t] = IdleTask]

\* page.close() is called on the task's page.
pageClose(p, t) == [p EXCEPT !.pages[p.task[t].page].closes = @ + 1]

\* A method is called while the task runs no other.
Call(t, op) ==
  /\ puppeteer.task[t].pc = "idle"
  /\ puppeteer.ops < MaxOps
  /\ puppeteer' =
       [puppeteer EXCEPT !.ops = @ + 1,
                         !.task[t].op = op,
                         !.task[t].pc = IF op = "cleanup" THEN "cleanup" ELSE "getBrowser"]
  /\ UNCHANGED << login, probe, transition, credentials, tester, wss, memStorage, form, listing >>
  /\ ServiceFrame

\* getBrowser, the test of this.browser: a connected browser is returned at
\* once, otherwise the settings are awaited.
getBrowser(t) ==
  /\ puppeteer.task[t].pc = "getBrowser"
  /\ puppeteer' =
       IF Connected(puppeteer.browser)
         THEN [puppeteer EXCEPT !.task[t].browser = puppeteer.browser,
                                !.task[t].pc = "newPage"]
         ELSE At(puppeteer, t, "getSettings")
  /\ UNCHANGED << login, probe, transition, credentials, tester, wss, memStorage, form, listing >>
  /\ ServiceFrame

\* getBrowser: storage.getSettings() resolves and puppeteer.launch is called.
getSettings(t) ==
  /\ puppeteer.task[t].pc = "getSettings"
  /\ \/ puppeteer' = At(puppeteer, t, "launch")
     \/ BrowserFault /\ puppeteer' = Return(Faulted(puppeteer), t)
  /\ UNCHANGED << login, probe, transition, credentials, tester, wss, memStorage, form, listing >>
  /\ ServiceFrame

\* getBrowser: puppeteer.launch resolves with a new browser, which is
\* stored in this.browser and returned.
launch(t) ==
  /\ puppeteer.task[t].pc = "launch"
  /\ \/ /\ Len(puppeteer.launched) < MaxBrowsers
        /\ LET b == Len(puppeteer.launched) + 1
           IN  puppeteer' =
                 [puppeteer EXCEPT
                    !.launched = Append(@, [connected |-> TRUE, closes |-> 0]),
                    !.browser = b,
                    !.task[t].browser = b,
                    !.task[t].pc = "newPage"]
     \/ BrowserFault /\ puppeteer' = Return(Faulted(puppeteer), t)
  /\ UNCHANGED << login, probe, transition, credentials, tester, wss, memStorage, form, listing >>
  /\ ServiceFrame

\* browser.newPage(): outside every try block, so a rejection leaves the
\* method with no page opened.
newPage(t) ==
  /\ puppeteer.task[t].pc = "newPage"
  /\ \/ /\ Connected(puppeteer.task[t].browser)
        /\ Len(puppeteer.pages) < MaxPages
        /\ puppeteer' =
             [puppeteer EXCEPT
                !.pages = Append(@, [closes |-> 0, op |-> puppeteer.task[t].op]),
                !.task[t].page = Len(puppeteer.pages) + 1,
                !.task[t].pc = IF puppeteer.task[t].op = "testOlxConnection"
                                 THEN "configure" ELSE "try"]
     \/ ~Connected(puppeteer.task[t].browser) /\ puppeteer' = Return(puppeteer, t)
     \/ BrowserFault /\ puppeteer' = Return(Faulted(puppeteer), t)
  /\ UNCHANGED << login, probe, transition, credentials, tester, wss, memStorage, form, listing >>
  /\ ServiceFrame

\* extractPropertyData, createOLXListing: the try block runs to its end,
\* throws the classified failure (OLX code not found) or an awaited call
\* rejects; the finally block follows in each case.
tryBlock(t) ==
  /\ puppeteer.task[t].pc = "try"
  /\ \/ puppeteer' = At(puppeteer, t, "finally")
     \/ BrowserFault /\ puppeteer' = At(Faulted(puppeteer), t, "finally")
  /\ UNCHANGED << login, probe, transition, credentials, tester, wss, memStorage, form, listing >>
  /\ ServiceFrame

\* finally { await page.close() }
finallyBlock(t) ==
  /\ puppeteer.task[t].pc = "finally"
  /\ puppeteer' = Return(pageClose(puppeteer, t), t)
  /\ UNCHANGED << login, probe, transition, credentials, tester, wss, memStorage, form, listing >>
  /\ ServiceFrame

\* testOlxConnection: setUserAgent, setViewport, evaluateOnNewDocument,
\* before the inner try block; a rejection goes to the outer catch block,
\* which returns a result.
configure(t) ==
  /\ puppeteer.task[t].pc = "configure"
  /\ \/ puppeteer' = At(puppeteer, t, "form")
     \/ BrowserFault /\ puppeteer' = Return(Faulted(puppeteer), t)
  /\ UNCHANGED << login, probe, transition, credentials, tester, wss, memStorage, form, listing >>
  /\ ServiceFrame

\* testOlxConnection, PASSO 4 to 7: a field that is not found closes the
\* page and returns the classified failure.
loginForm(t) ==
  /\ puppeteer.task[t].pc = "form"
  /\ \/ puppeteer' = At(puppeteer, t, "read")
     \/ puppeteer' = Return(pageClose(puppeteer, t), t)
     \/ BrowserFault /\ puppeteer' = At(Faulted(puppeteer), t, "catch")
  /\ UNCHANGED << login, probe, transition, credentials, tester, wss, memStorage, form, listing >>
  /\ ServiceFrame

\* testOlxConnection, PASSO 8: the page is read, then closed.
readPage(t) ==
  /\ puppeteer.task[t].pc = "read"
  /\ \/ puppeteer' = At(pageClose(puppeteer, t), t, "decide")
     \/ BrowserFault /\ puppeteer' = At(Faulted(puppeteer), t, "catch")
  /\ UNCHANGED << login, probe, transition, credentials, tester, wss, memStorage, form, listing >>
  /\ ServiceFrame

\* testOlxConnection, PASSO 9: the log calls and the decision, still inside
\* the inner try block.
decide(t) ==
  /\ puppeteer.task[t].pc = "decide"
  /\ \/ puppeteer' = Return(puppeteer, t)
     \/ BrowserFault /\ puppeteer' = At(Faulted(puppeteer), t, "catch")
  /\ UNCHANGED << login, probe, transition, credentials, tester, wss, memStorage, form, listing >>
  /\ ServiceFrame

\* catch (browserError) { await page.close(); ... return }
catchBrowserError(t) ==
  /\ puppeteer.task[t].pc = "catch"
  /\ puppeteer' = Return(pageClose(puppeteer, t), t)
  /\ UNCHANGED << login, probe, transition, credentials, tester, wss, memStorage, form, listing >>
  /\ ServiceFrame

\* cleanup: if (this.browser) this.browser.close() is called.
cleanup(t) ==
  /\ puppeteer.task[t].pc = "cleanup"
  /\ puppeteer' =
       IF puppeteer.browser # NoBrowser
         THEN [puppeteer EXCEPT
                 !.launched[puppeteer.browser] =
                    [connected |-> FALSE, closes |-> @.closes + 1],
                 !.task[t].pc = "closing"]
         ELSE Return(puppeteer, t)
  /\ UNCHANGED << login, probe, transition, credentials, tester, wss, memStorage, form, listing >>
  /\ ServiceFrame

\* cleanup: browser.close() resolves and this.browser = null; when it
\* rejects the handle is left as it was.
browserClosed(t) ==
  /\ puppeteer.task[t].pc = "closing"
  /\ \/ puppeteer' = Return([puppeteer EXCEPT !.browser = NoBrowser], t)
     \/ BrowserFault /\ puppeteer' = Return(Faulted(puppeteer), t)
  /\ UNCHANGED << login, probe, transition, credentials, tester, wss, memStorage, form, listing >>
  /\ ServiceFrame

InitBrowser ==
  /\ ServiceInit
  /\ login = NoLogin
  /\ probe = NoProbe
  /\ puppeteer = NoPuppeteer
  /\ transition = NoTransition
  /\ listing = NoListing
  /\ form = NoForm
  /\ memStorage = NoMemStorage
  /\ wss = NoWss
  /\ credentials = NoCredentials
  /\ tester = NoTester

NextBrowser ==
  \/ \E t \in Tasks, op \in Ops : Call(t, op)
  \/ \E t \in Tasks : getBrowser(t)
  \/ \E t \in Tasks : getSettings(t)
  \/ \E t \in Tasks : launch(t)
  \/ \E t \in Tasks : newPage(t)
  \/ \E t \in Tasks : tryBlock(t)
  \/ \E t \in Tasks : finallyBlock(t)
  \/ \E t \in Tasks : configure(t)
  \/ \E t \in Tasks : loginForm(t)
  \/ \E t \in Tasks : readPage(t)
  \/ \E t \in Tasks : decide(t)
  \/ \E t \in Tasks : catchBrowserError(t)
  \/ \E t \in Tasks : cleanup(t)
  \/ \E t \in Tasks : browserClosed(t)

SpecBrowser == InitBrowser /\ [][NextBrowser]_vars

\* The pages of the calls that have returned.
Left(i) == \A t \in Tasks : puppeteer.task[t].page # i

\* C16: once a scrape, publish or browser-driven probe call has returned,
\* however it ended, the page it opened has been closed exactly once.
C16_PageClosedOnce ==
  \A i \in DOMAIN puppeteer.pages : Left(i) => puppeteer.pages[i].closes = 1

\* C17: every launched browser that is still running is the one
\* this.browser refers to: concurrent getBrowser calls launch one browser.
C17_OneBrowser ==
  \A b \in DOMAIN puppeteer.launched :
    puppeteer.launched[b].connected => puppeteer.browser = b

\* C18: cleanup closes the shared browser exactly once: browser.close() is
\* called at most once on each launched browser, also when calls of cleanup
\* overlap.
C18_ClosedOnce ==
  \A b \in DOMAIN puppeteer.launched : puppeteer.launched[b].closes <= 1

(* ---- step transitions: persist, log, broadcast ---- *)

\* The steps startAutomation hands to updateProgress, in the order of its
\* calls; the earlier variant names connecting_univen twice.
Transitions ==
  IF variant = "later" THEN StepOrder
  ELSE << "connecting_univen" >> \o StepOrder

\* The position of a step in the workflow.
StepIndex(step) == CHOOSE i \in DOMAIN StepOrder : StepOrder[i] = step

StepFault == transition.faults < MaxFaults

CallAt(tr, r, pc) == [tr EXCEPT !.call[r].pc = pc]

StepFaulted(tr) == [tr EXCEPT !.faults = @ + 1]

\* storage.updateAutomation: a record that no longer exists is left alone
\* and undefined is returned.
updateStatus(tr, status) ==
  IF tr.exists THEN [tr EXCEPT !.status = status] ELSE tr

TransitionFrame == UNCHANGED << login, probe, puppeteer, credentials, tester, wss, memStorage, form, listing >> /\ ServiceFrame

\* startAutomation is called for the job: the later variant returns when
\* the job is in activeAutomations, the earlier one has no such test.
startCall(r) ==
  /\ transition.call[r].pc = "idle"
  /\ transition.starts < MaxCalls
  /\ transition' =
       IF variant = "later" /\ transition.active
         THEN [transition EXCEPT !.starts = @ + 1]
         ELSE [transition EXCEPT !.starts = @ + 1, !.active = TRUE,
                                 !.call[r].pc = "get"]
  /\ TransitionFrame

\* getAutomation, and in the later variant the update to 'processing'.
getJob(r) ==
  /\ transition.call[r].pc = "get"
  /\ \/ /\ transition.exists
        /\ transition' =
             [ (IF variant = "later" THEN updateStatus(transition, "processing")
                                     ELSE transition)
               EXCEPT !.call[r].pc = "persist", !.call[r].step = 1 ]
     \/ ~transition.exists /\ transition' = CallAt(transition, r, "catch")
     \/ StepFault /\ transition' = CallAt(StepFaulted(transition), r, "catch")
  /\ TransitionFrame

\* updateProgress: await storage.updateAutomation({currentStep, progress});
\* the value it returns is not looked at.
persistStep(r) ==
  /\ transition.call[r].pc = "persist"
  /\ \/ /\ transition.exists
        /\ transition' = CallAt(transition, r, "log")
     \/ /\ ~transition.exists
        /\ transition' = [transition EXCEPT !.call[r].pc = "log",
                                            !.call[r].persistFailed = TRUE]
     \/ /\ StepFault
        /\ transition' = [StepFaulted(transition) EXCEPT
                            !.call[r].pc = "catch",
                            !.call[r].persistFailed = TRUE]
  /\ TransitionFrame

\* updateProgress: await this.log('info', message): createSystemLog.
logStep(r) ==
  /\ transition.call[r].pc = "log"
  /\ \/ transition' = CallAt(transition, r, "broadcast")
     \/ StepFault /\ transition' = CallAt(StepFaulted(transition), r, "catch")
  /\ TransitionFrame

\* updateProgress: this.broadcast({type: 'progress'}), after which
\* startAutomation goes on to its next updateProgress.
broadcastStep(r) ==
  /\ transition.call[r].pc = "broadcast"
  /\ transition' =
       IF transition.call[r].step < Len(Transitions)
         THEN [transition EXCEPT !.call[r].pc = "persist", !.call[r].step = @ + 1]
         ELSE CallAt(transition, r, "complete")
  /\ TransitionFrame

\* The update to 'completed' and the finally block.
completeJob(r) ==
  /\ transition.call[r].pc = "complete"
  /\ \/ transition' = [updateStatus(transition, "completed") EXCEPT
                         !.active = FALSE, !.call[r].pc = "done"]
     \/ StepFault /\ transition' = CallAt(StepFaulted(transition), r, "catch")
  /\ TransitionFrame

\* The catch block (log, then the update to 'failed') and the finally
\* block; when the log call rejects the update is skipped.
catchJob(r) ==
  /\ transition.call[r].pc = "catch"
  /\ \/ transition' = [updateStatus(transition, "failed") EXCEPT
                         !.active = FALSE, !.call[r].pc = "done"]
     \/ /\ StepFault
        /\ transition' = [StepFaulted(transition) EXCEPT
                            !.active = FALSE, !.call[r].pc = "done"]
  /\ TransitionFrame

\* stopAutomation for the job.
stopJob ==
  /\ transition.stops < MaxStops
  /\ transition' =
       IF transition.active
         THEN [updateStatus(transition, StoppedStatus) EXCEPT
                 !.stops = @ + 1, !.active = FALSE]
         ELSE [transition EXCEPT !.stops = @ + 1]
  /\ TransitionFrame

\* DELETE /api/automations/:id
deleteAutomation ==
  /\ transition.exists
  /\ transition' = [transition EXCEPT !.exists = FALSE]
  /\ TransitionFrame

InitTransition ==
  /\ ServiceInit
  /\ login = NoLogin
  /\ probe = NoProbe
  /\ puppeteer = NoPuppeteer
  /\ transition = NoTransition
  /\ listing = NoListing
  /\ form = NoForm
  /\ memStorage = NoMemStorage
  /\ wss = NoWss
  /\ credentials = NoCredentials
  /\ tester = NoTester

NextTransition ==
  \/ \E r \in Runs : startCall(r)
  \/ \E r \in Runs : getJob(r)
  \/ \E r \in Runs : persistStep(r)
  \/ \E r \in Runs : logStep(r)
  \/ \E r \in Runs : broadcastStep(r)
  \/ \E r \in Runs : completeJob(r)
  \/ \E r \in Runs : catchJob(r)
  \/ stopJob
  \/ deleteAutomation

SpecTransition == InitTransition /\ [][NextTransition]_vars

\* The call has persisted its step and not yet broadcast it.
MidTransition(r) == transition.call[r].pc \in {"log", "broadcast"}

StepOf(r) == StepIndex(Transitions[transition.call[r].step])

Persists(r) ==
  /\ transition.call[r].pc = "persist"
  /\ transition'.call[r].pc = "log"

\* C19: a step transition is persist, then log, then broadcast, and the
\* job's transition to a later step does not start (persist) while the
\* persist, log, broadcast of an earlier step of the job is incomplete.
C19_StepsSequential ==
  [][ \A r \in Runs : Persists(r) =>
        \A q \in Runs : MidTransition(q) => StepOf(q) >= StepOf(r) ]_vars

\* C20: a call whose persist of a step transition failed (the update threw
\* or returned nothing) starts no later step, and when it ends the job, if
\* its record exists, is 'failed'.
C20_PersistFailureFails ==
  [][ \A r \in Runs : transition.call[r].persistFailed =>
        /\ transition'.call[r].step = transition.call[r].step
        /\ ( /\ transition.call[r].pc # "done"
              /\ transition'.call[r].pc = "done"
              /\ transition'.exists ) => transition'.status = "failed" ]_vars

(* ---- failures of a run ---- *)

OlxWarning(id) ==
  [level |-> "warning", message |-> "OLX connection warning", automationId |-> id]

\* The step of call r receives success=false from a connectivity probe: the
\* UNIVEN probe's failure is thrown, the OLX probe's is logged as a warning.
ProbeFailed(r) ==
  /\ variant = "earlier"
  /\ run'[r] # run[r]
  /\ \/ run[r].pc = "univen" /\ run'[r].error = "UNIVEN connection failed"
     \/ /\ run[r].pc = "olx"
        /\ CopiesIn(OlxWarning(run[r].id), systemLogs') >
             CopiesIn(OlxWarning(run[r].id), systemLogs)

\* C22: when the connectivity probe of either external system answers
\* success=false during a run, the run goes to its failure handling (the job
\* ends 'failed') and does not go on to the publishing step.
C22_FailedProbeFails ==
  [][ \A r \in Runs : ProbeFailed(r) => run'[r].pc = "catch" ]_vars

\* The functions of the earlier variant that await nothing but log calls.
LogOnly(r) == variant = "earlier" /\ run[r].pc \in {"ext", "dl"}

\* C24: a log write that throws during a run does not abort the job: a
\* step that awaits only log calls never ends in the failure handling.
C24_LogFailureDoesNotAbort ==
  [][ \A r \in Runs : (LogOnly(r) /\ run'[r] # run[r]) => run'[r].pc # "catch" ]_vars

\* C26: for every job, completedAt is set if and only if the status is
\* 'completed'.
C26_CompletedAtIffCompleted ==
  \A id \in DOMAIN automations :
    automations[id].completedAt # Null <=> automations[id].status = "completed"

\* C27: for every job, errorMessage is set only if the status is 'failed'.
C27_ErrorMessageOnlyIfFailed ==
  \A id \in DOMAIN automations :
    automations[id].errorMessage # Null => automations[id].status = "failed"

\* The progress range the specification gives each step.
ProgressRange(step) ==
  CASE step = "connecting_univen" -> 10..20
    [] step = "extracting_data" -> 30..40
    [] step = "downloading_photos" -> 50..60
    [] step = "connecting_olx" -> 70..80
    [] step = "creating_listing" -> 85..90
    [] step = "finalizing" -> 100..100

\* C28: for every job with a currentStep, progress lies in the range of
\* that step, and progress is always between 0 and 100.
C28_ProgressInStepRange ==
  \A id \in DOMAIN automations :
    /\ automations[id].progress \in 0..100
    /\ automations[id].currentStep # Null =>
         automations[id].progress \in ProgressRange(automations[id].currentStep)

\* C30: a code is marked used only while the job it is bound to is in
\* progress or completed.
C30_UsedOnlyWhileBound ==
  \A c \in DOMAIN olxCodes :
    olxCodes[c].isUsed =>
      /\ olxCodes[c].currentAutomationId \in DOMAIN automations
      /\ automations[olxCodes[c].currentAutomationId].status
           \in {"pending", "processing", "completed"}

(* ---- the connecting steps and the credential settings ---- *)

UnivenCredentials == {"univenUsername", "univenPassword"}

OlxCredentials == {"olxEmail", "olxPassword"}

CredentialFrame == UNCHANGED << login, probe, puppeteer, transition, tester, wss, memStorage, form, listing >> /\ ServiceFrame

Attempt(c, what, pc) == [c EXCEPT !.attempted = @ \cup {what}, !.pc = pc]

\* POST /api/automations starts the job.
startJob ==
  /\ credentials.pc = "idle"
  /\ credentials' = [credentials EXCEPT !.pc = "connecting_univen"]
  /\ CredentialFrame

\* Step connecting_univen.  The earlier variant reads the settings, throws
\* when a UNIVEN credential is missing and otherwise probes, throwing on a
\* failed probe; the later variant reads no setting and probes nothing.
connectUniven ==
  /\ credentials.pc = "connecting_univen"
  /\ IF variant = "later"
       THEN credentials' = [credentials EXCEPT !.pc = "extracting_data"]
       ELSE IF ~(UnivenCredentials \subseteq credentials.settings)
         THEN credentials' = [credentials EXCEPT !.pc = "catch"]
         ELSE \E success \in BOOLEAN :
                credentials' = Attempt(credentials, "probe UNIVEN",
                                       IF success THEN "extracting_data" ELSE "catch")
  /\ CredentialFrame

\* extractPropertyData (and downloadPhotos, which reaches no external system).
scrape ==
  /\ credentials.pc = "extracting_data"
  /\ credentials' = Attempt(credentials, "scrape", "connecting_olx")
  /\ CredentialFrame

\* Step connecting_olx.  The earlier variant reads the settings, throws when
\* an OLX credential is missing and otherwise probes; the later variant
\* reads no setting and probes nothing.
connectOlx ==
  /\ credentials.pc = "connecting_olx"
  /\ IF variant = "later"
       THEN credentials' = [credentials EXCEPT !.pc = "creating_listing"]
       ELSE IF ~(OlxCredentials \subseteq credentials.settings)
         THEN credentials' = [credentials EXCEPT !.pc = "catch"]
         ELSE credentials' = Attempt(credentials, "probe OLX", "creating_listing")
  /\ CredentialFrame

\* createOLXListing, then the update to 'completed'.
publish ==
  /\ credentials.pc = "creating_listing"
  /\ credentials' = [Attempt(credentials, "publish", "done") EXCEPT !.status = "completed"]
  /\ CredentialFrame

\* The catch block: the update to 'failed'.
failJob ==
  /\ credentials.pc = "catch"
  /\ credentials' = [credentials EXCEPT !.pc = "done", !.status = "failed"]
  /\ CredentialFrame

InitCredentials ==
  /\ ServiceInit
  /\ login = NoLogin
  /\ probe = NoProbe
  /\ puppeteer = NoPuppeteer
  /\ transition = NoTransition
  /\ listing = NoListing
  /\ form = NoForm
  /\ memStorage = NoMemStorage
  /\ wss = NoWss
  /\ tester = NoTester
  /\ \E settings \in SUBSET (UnivenCredentials \cup OlxCredentials) :
       credentials = [NoCredentials EXCEPT !.settings = settings]

NextCredentials ==
  \/ startJob
  \/ connectUniven
  \/ scrape
  \/ connectOlx
  \/ publish
  \/ failJob

SpecCredentials == InitCredentials /\ [][NextCredentials]_vars

\* C21: with a UNIVEN credential missing neither the UNIVEN probe nor the
\* scrape is attempted, with an OLX credential missing neither the OLX probe
\* nor the publish is attempted, and the job then ends 'failed'.
C21_MissingCredentialsFail ==
  /\ ~(UnivenCredentials \subseteq credentials.settings) =>
       /\ credentials.attempted \cap {"probe UNIVEN", "scrape"} = {}
       /\ credentials.pc = "done" => credentials.status = "failed"
  /\ ~(OlxCredentials \subseteq credentials.settings) =>
       /\ credentials.attempted \cap {"probe OLX", "publish"} = {}
       /\ credentials.pc = "done" => credentials.status = "failed"

(* ---- ConnectivityTester: what a test method returns ---- *)

\* The two files that hold a ConnectivityTester class.
ConnectivityTest == "connectivity-test.ts"

StorageCopy == "storage.ts"

\* The endpoints testUnivenConnection tries in turn.
Endpoints == << "https://univenweb.com.br", "https://www.univenweb.com.br",
                "https://univenweb.com.br/login" >>

TesterFrame ==
  UNCHANGED << login, probe, puppeteer, transition, credentials, wss, memStorage, form, listing >> /\ ServiceFrame

\* ConnectivityTester.log: storage.createSystemLog may reject.
LogFault == tester.faults < MaxFaults

TesterAt(pc) == tester' = [tester EXCEPT !.pc = pc]

\* The log call rejects inside the outer try block.
LogThrows(pc) ==
  /\ LogFault
  /\ tester' = [tester EXCEPT !.pc = pc, !.error = TRUE, !.faults = @ + 1]

\* return { success, message, recommendation } from the call t; the
\* recommendation recorded is the one to log in manually.
Result(t, success, message, recommendation) ==
  [t EXCEPT !.pc = "done",
            !.result = IF success THEN "success" ELSE "failure",
            !.message = message,
            !.recommendation = recommendation]

BothCredentials == tester.username /\ tester.password

\* A test method is called; its first log calls.
testConnection ==
  /\ tester.pc = "idle"
  /\ tester.method # Null
  /\ \/ TesterAt(CASE tester.source = ConnectivityTest /\ tester.method = "testUnivenConnection" -> "endpoint"
                   [] tester.source = ConnectivityTest /\ tester.method = "testOlxConnection" -> "head"
                   [] tester.source = StorageCopy /\ tester.method = "testUnivenConnection" -> "launch"
                   [] tester.source = StorageCopy /\ tester.method = "testOlxConnection" -> "credentials")
     \/ LogThrows("catch")
  /\ TesterFrame

\* testUnivenConnection, one round of the loop over the endpoints: the
\* HEAD request answers ok, answers not ok, or rejects (network error, or
\* the timeout of AbortSignal.timeout(10000)), which the loop's own catch
\* logs as a warning.
tryEndpoint ==
  /\ tester.pc = "endpoint"
  /\ LET i == tester.endpoint + 1
         asked == [tester EXCEPT !.endpoint = i, !.contacted = Append(@, i)]
         next == IF i = Len(Endpoints) THEN "unreachable" ELSE "endpoint"
     IN  \/ tester' = [asked EXCEPT !.answered = i, !.pc = "reachable"]
         \/ tester' = [asked EXCEPT !.pc = next]
         \/ tester' = [asked EXCEPT !.pc = next, !.timedOut = @ \cup {Endpoints[i]}]
         \/ LogThrows("catch")
  /\ TesterFrame

\* No endpoint answered: log, return success=false.
unreachable ==
  /\ tester.pc = "unreachable"
  /\ \/ tester' = Result([tester EXCEPT !.error = TRUE], FALSE, "unreachable", FALSE)
     \/ LogThrows("catch")
  /\ TesterFrame

\* An endpoint answered; without credentials the method returns success
\* and recommends a manual login.
reachable ==
  /\ tester.pc = "reachable"
  /\ \/ IF BothCredentials
          THEN TesterAt("login")
          ELSE tester' = Result(tester, TRUE, "accessible", TRUE)
     \/ LogThrows("catch")
  /\ TesterFrame

\* The POST of the credentials: answers ok, answers not ok, or rejects
\* (network error, or the timeout of AbortSignal.timeout(15000)); a
\* rejection, and a rejecting log call inside this try block, goes to
\* catch (loginError).
postLogin ==
  /\ tester.pc = "login"
  /\ LET posted == [tester EXCEPT !.attempted = TRUE]
     IN  \/ tester' = Result(posted, TRUE, "validated", FALSE)
         \/ tester' = Result(posted, FALSE, "invalid credentials", FALSE)
         \/ tester' = [posted EXCEPT !.pc = "loginError", !.error = TRUE]
         \/ tester' = [posted EXCEPT !.pc = "loginError", !.error = TRUE,
                                     !.timedOut = @ \cup {"login"}]
         \/ /\ LogFault
            /\ tester' = [posted EXCEPT !.pc = "loginError", !.error = TRUE,
                                        !.faults = @ + 1]
  /\ TesterFrame

\* catch (loginError): log a warning, return success: true.
catchLoginError ==
  /\ tester.pc = "loginError"
  /\ \/ tester' = Result(tester, TRUE, "not validated", TRUE)
     \/ LogThrows("catch")
  /\ TesterFrame

\* testOlxConnection: the HEAD request answers ok, answers not ok, or
\* rejects (network error, or the timeout of AbortSignal.timeout(10000)).
headOlx ==
  /\ tester.pc = "head"
  /\ LET asked == [tester EXCEPT !.contacted = Append(@, 1)]
     IN  \/ tester' = Result([asked EXCEPT !.answered = 1], TRUE, "accessible", TRUE)
         \/ tester' = Result(asked, FALSE, "status", FALSE)
         \/ tester' = [asked EXCEPT !.pc = "catch", !.error = TRUE]
         \/ tester' = [asked EXCEPT !.pc = "catch", !.error = TRUE,
                                    !.timedOut = @ \cup {"https://pro.olx.com.br/"}]
         \/ LogThrows("catch")
  /\ TesterFrame

\* The outer catch: await this.log('error', ...), then return success:
\* false; a rejecting log call leaves the method by a throw.
catchError ==
  /\ tester.pc = "catch"
  /\ \/ tester' = Result(tester, FALSE, "error", FALSE)
     \/ /\ LogFault
        /\ tester' = [tester EXCEPT !.pc = "done", !.result = "thrown", !.faults = @ + 1]
  /\ TesterFrame

\* storage.ts, testOlxConnection: without both credentials the method
\* returns at once; with them it writes the email to the log.
checkCredentials ==
  /\ tester.pc = "credentials"
  /\ \/ IF BothCredentials
          THEN tester' = [tester EXCEPT !.pc = "get", !.logged = @ \cup {"email"}]
          ELSE tester' = Result(tester, FALSE, "credentials required", FALSE)
     \/ LogThrows("catch")
  /\ TesterFrame

\* storage.ts, testOlxConnection: GET of the Canal Pro page; every branch
\* taken on an ok answer returns success with a recommendation.
getCanalPro ==
  /\ tester.pc = "get"
  /\ LET asked == [tester EXCEPT !.contacted = Append(@, 1)]
     IN  \/ tester' = Result([asked EXCEPT !.answered = 1], TRUE, "accessible", TRUE)
         \/ tester' = Result(asked, FALSE, "status", FALSE)
         \/ tester' = [asked EXCEPT !.pc = "catch", !.error = TRUE]
         \/ LogThrows("catch")
  /\ TesterFrame

\* storage.ts, testUnivenConnection: puppeteer.launch inside the inner try.
launchBrowser ==
  /\ tester.pc = "launch"
  /\ \/ tester' = [tester EXCEPT !.pc = "goto", !.browser = "open"]
     \/ tester' = [tester EXCEPT !.pc = "browserError", !.error = TRUE]
     \/ LogThrows("catch")
  /\ TesterFrame

\* newPage, setUserAgent, log, page.goto: the site answers 200, answers
\* another status (log, return success: false), or the navigation throws.
gotoUniven ==
  /\ tester.pc = "goto"
  /\ LET asked == [tester EXCEPT !.contacted = Append(@, 1)]
     IN  \/ tester' = [asked EXCEPT !.answered = 1, !.pc = "session"]
         \/ tester' = Result(asked, FALSE, "status", FALSE)
         \/ tester' = [asked EXCEPT !.pc = "browserError", !.error = TRUE]
         \/ tester' = [asked EXCEPT !.pc = "browserError", !.error = TRUE,
                                    !.timedOut = @ \cup {"https://www.univenweb.com.br/"}]
         \/ LogThrows("browserError")
  /\ TesterFrame

\* The page is read: a session indicator is found (log, browser.close(),
\* return success: true) or not (log, browser.close()).
detectSession ==
  /\ tester.pc = "session"
  /\ \/ tester' = Result([tester EXCEPT !.browser = "closed"], TRUE, "session active", FALSE)
     \/ tester' = [tester EXCEPT !.pc = "noSession", !.browser = "closed"]
     \/ LogThrows("browserError")
  /\ TesterFrame

\* catch (browserError): close the browser if there is one, log a warning.
catchSessionError ==
  /\ tester.pc = "browserError"
  /\ LET closed == [tester EXCEPT !.browser = IF @ = "open" THEN "closed" ELSE @]
     IN  \/ tester' = [closed EXCEPT !.pc = "noSession"]
         \/ /\ LogFault
            /\ tester' = [closed EXCEPT !.pc = "catch", !.error = TRUE, !.faults = @ + 1]
  /\ TesterFrame

\* No session was detected: log, return success: false with the
\* recommendation of a manual login.
noSession ==
  /\ tester.pc = "noSession"
  /\ \/ tester' = Result(tester, FALSE, "no session", TRUE)
     \/ LogThrows("catch")
  /\ TesterFrame

InitTester ==
  /\ ServiceInit
  /\ login = NoLogin
  /\ probe = NoProbe
  /\ puppeteer = NoPuppeteer
  /\ transition = NoTransition
  /\ listing = NoListing
  /\ form = NoForm
  /\ memStorage = NoMemStorage
  /\ wss = NoWss
  /\ credentials = NoCredentials
  /\ \E source \in {ConnectivityTest, StorageCopy},
        method \in {"testUnivenConnection", "testOlxConnection"},
        username \in BOOLEAN, password \in BOOLEAN :
       tester = [NoTester EXCEPT !.source = source, !.method = method,
                                 !.username = username, !.password = password]

NextTester ==
  \/ testConnection
  \/ tryEndpoint
  \/ unreachable
  \/ reachable
  \/ postLogin
  \/ catchLoginError
  \/ headOlx
  \/ catchError
  \/ checkCredentials
  \/ getCanalPro
  \/ launchBrowser
  \/ gotoUniven
  \/ detectSession
  \/ catchSessionError
  \/ noSession

SpecTester == InitTester /\ [][NextTester]_vars

\* C23: every failure inside a test method ends in a returned result with
\* success=false: the method never throws to its caller and never returns
\* success=true after an error.
C23_FailuresBecomeResults ==
  (tester.pc = "done" /\ tester.error) => tester.result = "failure"

(* ---- AutomationService.broadcast ---- *)

\* WebSocket.readyState.
ReadyStates == {"CONNECTING", "OPEN", "CLOSING", "CLOSED"}

\* The clients of the server, in the order forEach visits them.
Clients == 1 .. MaxClients

WssFrame ==
  UNCHANGED << login, probe, puppeteer, transition, credentials, tester, memStorage, form, listing >> /\ ServiceFrame

\* updateProgress has persisted and logged a step and calls broadcast.
broadcast ==
  /\ wss.pc = "idle"
  /\ wss.status = "processing"
  /\ wss.steps < MaxBroadcasts
  /\ wss' = [wss EXCEPT !.pc = "forEach", !.next = 1, !.sent = {}, !.steps = @ + 1]
  /\ WssFrame

\* The body of forEach for one client: send to it if it is OPEN; a send
\* that throws leaves forEach and broadcast.
send ==
  /\ wss.pc = "forEach"
  /\ wss.next \in Clients
  /\ wss' = IF wss.readyState[wss.next] # "OPEN"
              THEN [wss EXCEPT !.next = @ + 1]
              ELSE IF wss.next \in wss.failing
                     THEN [wss EXCEPT !.pc = "thrown"]
                     ELSE [wss EXCEPT !.next = @ + 1, !.sent = @ \cup {wss.next}]
  /\ WssFrame

\* forEach has visited every client.
Visited == wss.pc = "forEach" /\ wss.next \notin Clients

\* broadcast returns to updateProgress, which returns to startAutomation;
\* after the last step the job is completed.
broadcastReturns ==
  /\ Visited
  /\ wss' = [wss EXCEPT !.pc = "idle",
                        !.status = IF wss.steps = MaxBroadcasts THEN "completed" ELSE @]
  /\ WssFrame

\* The throw leaves updateProgress and reaches the catch block of
\* startAutomation.
catchBroadcast ==
  /\ wss.pc = "thrown"
  /\ wss' = [wss EXCEPT !.pc = "idle", !.status = "failed"]
  /\ WssFrame

InitWss ==
  /\ ServiceInit
  /\ login = NoLogin
  /\ probe = NoProbe
  /\ puppeteer = NoPuppeteer
  /\ transition = NoTransition
  /\ listing = NoListing
  /\ form = NoForm
  /\ memStorage = NoMemStorage
  /\ credentials = NoCredentials
  /\ tester = NoTester
  /\ \E readyState \in [Clients -> ReadyStates], failing \in SUBSET Clients :
       wss = [NoWss EXCEPT !.readyState = readyState, !.failing = failing,
                           !.status = "processing"]

NextWss ==
  \/ broadcast
  \/ send
  \/ broadcastReturns
  \/ catchBroadcast

SpecWss == InitWss /\ [][NextWss]_vars

\* C25: a broadcast sends to exactly the clients whose readyState is OPEN,
\* and no client makes the broadcast throw or the job fail.
C25_BroadcastBestEffort ==
  /\ wss.pc # "thrown"
  /\ wss.status # "failed"
  /\ Visited => wss.sent = {c \in Clients : wss.readyState[c] = "OPEN"}

(* ---- MemStorage's automations under the routes ---- *)

StorageFrame ==
  UNCHANGED << login, probe, puppeteer, transition, credentials, tester, wss, form, listing >>
  /\ ServiceFrame

\* The fields a job is identified by, and all the fields modelled here.
IdentityFields == {"id", "createdAt", "propertyCode", "olxCode"}

AutomationFields == IdentityFields \cup {"status"}

PropertyCodes == {"AP-1", "AP-2"}

OlxCodeNumbers == {"OLX-1", "OLX-2"}

\* POST /api/automations: createAutomation stores a new record under the
\* next id; the n-th job is created at time n.
postAutomation ==
  /\ memStorage.currentAutomationId <= MaxJobs
  /\ \E propertyCode \in PropertyCodes, olxCode \in OlxCodeNumbers :
       LET id == memStorage.currentAutomationId
           automation == [ id |-> id, createdAt |-> id,
                           propertyCode |-> propertyCode, olxCode |-> olxCode,
                           status |-> "pending" ]
       IN  memStorage' =
             [ automations |-> (id :> automation) @@ memStorage.automations,
               currentAutomationId |-> id + 1,
               created |-> (id :> automation) @@ memStorage.created ]
  /\ StorageFrame

\* PUT /api/automations/:id: req.body goes to updateAutomation as it is, and
\* { ...automation, ...updates } takes every field the body has.
putAutomation ==
  /\ \E id \in 1 .. MaxJobs, fields \in SUBSET AutomationFields,
        otherId \in 1 .. MaxJobs :
       LET body == [ id |-> otherId, createdAt |-> 0, propertyCode |-> "AP-2",
                     olxCode |-> "OLX-2", status |-> "processing" ]
           updates == [f \in fields |-> body[f]]
       IN  memStorage' =
             [memStorage EXCEPT
                !.automations = updateAutomation(@, id, updates)]
  /\ StorageFrame

\* DELETE /api/automations/:id
removeAutomation ==
  /\ \E id \in DOMAIN memStorage.automations :
       memStorage' =
         [memStorage EXCEPT
            !.automations = [k \in DOMAIN @ \ {id} |-> @[k]]]
  /\ StorageFrame

InitStorage ==
  /\ ServiceInit
  /\ login = NoLogin
  /\ probe = NoProbe
  /\ puppeteer = NoPuppeteer
  /\ transition = NoTransition
  /\ listing = NoListing
  /\ form = NoForm
  /\ credentials = NoCredentials
  /\ tester = NoTester
  /\ wss = NoWss
  /\ memStorage = NoMemStorage

NextStorage ==
  \/ postAutomation
  \/ putAutomation
  \/ removeAutomation

SpecStorage == InitStorage /\ [][NextStorage]_vars

\* C29: every stored job keeps the id, createdAt, propertyCode and olxCode
\* it was created with, and the record stored under key k has id k.
C29_IdentityKept ==
  \A k \in DOMAIN memStorage.automations :
    /\ memStorage.automations[k].id = k
    /\ \A f \in IdentityFields :
         memStorage.automations[k][f] = memStorage.created[k][f]

\* The number of endpoints the called method knows.
KnownEndpoints ==
  IF tester.source = ConnectivityTest /\ tester.method = "testUnivenConnection"
    THEN Len(Endpoints)
    ELSE 1

\* C31: a test method called without both credentials, in a call where no
\* log write fails, only checks reachability: it contacts the endpoints in
\* their declared order, stops at the first that answers ok, posts no login,
\* returns success=true with the recommendation of a manual login when an
\* endpoint answered, and success=false after contacting all when none did.
C31_ReachabilityOnly ==
  (tester.pc = "done" /\ ~BothCredentials /\ tester.faults = 0) =>
    /\ ~tester.attempted
    /\ tester.contacted = [i \in 1 .. Len(tester.contacted) |-> i]
    /\ IF tester.answered # 0
         THEN /\ Len(tester.contacted) = tester.answered
              /\ tester.result = "success"
              /\ tester.recommendation
         ELSE /\ Len(tester.contacted) = KnownEndpoints
              /\ tester.result = "failure"

\* C32: a test method called with both credentials, in a call where an
\* endpoint answered and no log write fails, does not return before it has
\* posted a login with them, and it returns success=true exactly when that
\* login was validated.
C32_VerdictFromAttempt ==
  (tester.pc = "done" /\ BothCredentials /\ tester.answered # 0 /\ tester.faults = 0) =>
    /\ tester.attempted
    /\ tester.result = "success" <=> tester.message = "validated"

\* C33: a request that exceeds its timeout counts as a network failure: in a
\* call where no log write fails, a timed-out login request ends in
\* success=false, and when every endpoint timed out the method returns
\* success=false with the 'unreachable' message.
C33_TimeoutIsFailure ==
  (tester.pc = "done" /\ tester.faults = 0) =>
    /\ "login" \in tester.timedOut => tester.result = "failure"
    /\ (\A i \in DOMAIN Endpoints : Endpoints[i] \in tester.timedOut) =>
         tester.result = "failure" /\ tester.message = "unreachable"

\* C35: when the session-detection testUnivenConnection has ended, the
\* browser it launched is closed.
C35_BrowserClosedOnExit ==
  (tester.pc = "done" /\ tester.source = StorageCopy
     /\ tester.method = "testUnivenConnection") =>
    tester.browser # "open"

\* C36: no log entry written by a test method holds the identity or the
\* password it was called with.
C36_CredentialsNotStored == tester.logged = {}

(* ---- the browser-driven probes: looking up the form fields ---- *)

FormFrame ==
  UNCHANGED << login, probe, puppeteer, transition, credentials, tester, wss,
               memStorage, listing >>
  /\ ServiceFrame

\* testOlxConnection: emailSelectors and passwordSelectors, as declared.
OlxEmailSelectors ==
  << "input[name=email]", "input[name=username]", "input[name=user]",
     "input[type=email]", "input[type=text]", "#email", "#username", "#user",
     ".form-control[type=email]", ".form-control[type=text]",
     "[placeholder*=email]", "[placeholder*=e-mail]", "[placeholder*=usuario]" >>

OlxPasswordSelectors ==
  << "input[name=password]", "input[name=senha]", "input[type=password]",
     "#password", "#senha", ".form-control[type=password]",
     "[placeholder*=senha]", "[placeholder*=password]" >>

\* testUnivenConnection: passwordSelectors, as declared.
UnivenPasswordSelectors ==
  << "input[name=senha]", "input[name=password]", "input[type=password]",
     "#senha", "#password", "[placeholder*=senha]", "[placeholder*=password]" >>

passwordSelectors(platform) ==
  IF platform = OlxPro THEN OlxPasswordSelectors ELSE UnivenPasswordSelectors

Selectors ==
  {OlxEmailSelectors[i] : i \in DOMAIN OlxEmailSelectors}
    \cup {OlxPasswordSelectors[i] : i \in DOMAIN OlxPasswordSelectors}
    \cup {UnivenPasswordSelectors[i] : i \in DOMAIN UnivenPasswordSelectors}

\* The messages of the returns that follow a field not found.
EmailNotFound ==
  "campo de email nao encontrado na pagina Canal Pro. o layout do site pode ter mudado."

UsernameNotFound ==
  "campo de usuario nao encontrado na pagina UNIVEN. o layout do site pode ter mudado."

PasswordNotFound(platform) ==
  IF platform = OlxPro
    THEN "campo de senha nao encontrado na pagina Canal Pro. o layout do site pode ter mudado."
    ELSE "campo de senha nao encontrado na pagina UNIVEN. o layout do site pode ter mudado."

\* page.$(selector) on a page where the selectors of `matching` match.
RECURSIVE scan(_, _, _, _)
scan(selectors, matching, i, stopAtMatch) ==
  IF i > Len(selectors) THEN 0
  ELSE IF selectors[i] \in matching
    THEN IF stopAtMatch
           THEN i
           ELSE LET later == scan(selectors, matching, i + 1, stopAtMatch)
                IN  IF later = 0 THEN i ELSE later
    ELSE scan(selectors, matching, i + 1, stopAtMatch)

\* The loop without its break: the last selector that matches is kept.
forOfWithoutBreak(selectors, matching) == scan(selectors, matching, 1, FALSE)

\* for (const selector of selectors) { field = await page.$(selector);
\* if (field) { ...; break; } }: the index of the selector used, 0 if none.
forOf(selectors, matching) == scan(selectors, matching, 1, TRUE)

NotFound(message) == [success |-> FALSE, message |-> message]

\* The lookup of the email field (testOlxConnection) or of the user field
\* (testUnivenConnection, whose loop is not in the source: whether it finds
\* the field is an input).
lookupEmail ==
  /\ form.pc = "email"
  /\ IF form.platform = OlxPro
       THEN LET i == forOf(OlxEmailSelectors, form.matching)
            IN  form' = IF i = 0
                          THEN [form EXCEPT !.pc = "done", !.result = NotFound(EmailNotFound)]
                          ELSE [form EXCEPT !.pc = "password", !.emailIndex = i]
       ELSE form' = IF form.usernameFound
                      THEN [form EXCEPT !.pc = "password"]
                      ELSE [form EXCEPT !.pc = "done", !.result = NotFound(UsernameNotFound)]
  /\ FormFrame

\* The lookup of the password field.
lookupPassword ==
  /\ form.pc = "password"
  /\ LET i == forOf(passwordSelectors(form.platform), form.matching)
     IN  form' = IF i = 0
                   THEN [form EXCEPT !.pc = "done",
                                     !.result = NotFound(PasswordNotFound(form.platform))]
                   ELSE [form EXCEPT !.pc = "fill", !.passwordIndex = i]
  /\ FormFrame

\* PASSO 6: both fields are clicked and typed into.
fillCredentials ==
  /\ form.pc = "fill"
  /\ form' = [form EXCEPT !.pc = "filled", !.filled = {"email", "password"}]
  /\ FormFrame

InitForm ==
  /\ ServiceInit
  /\ login = NoLogin
  /\ probe = NoProbe
  /\ puppeteer = NoPuppeteer
  /\ transition = NoTransition
  /\ listing = NoListing
  /\ credentials = NoCredentials
  /\ tester = NoTester
  /\ wss = NoWss
  /\ memStorage = NoMemStorage
  /\ \E platform \in Platforms, usernameFound \in BOOLEAN,
        matching \in {m \in SUBSET Selectors : Cardinality(m) <= MaxMatches} :
       /\ platform = OlxPro => usernameFound
       /\ form = [NoForm EXCEPT !.platform = platform, !.matching = matching,
                                !.usernameFound = usernameFound, !.pc = "email"]

NextForm ==
  \/ lookupEmail
  \/ lookupPassword
  \/ fillCredentials

SpecForm == InitForm /\ [][NextForm]_vars

\* The selectors of a list that match on the page, by index.
Hits(selectors) == {i \in DOMAIN selectors : selectors[i] \in form.matching}

FirstHit(selectors, i) == i \in Hits(selectors) /\ \A j \in Hits(selectors) : i <= j

\* C34: the selector used for a field is the first of the declared list that
\* matches; when no candidate of a field matches, the probe returns
\* success=false with that field's 'layout may have changed' message, which
\* is not the invalid-credentials message, and has filled in nothing.
C34_FirstMatchOrLayout ==
  /\ form.emailIndex # 0 => FirstHit(OlxEmailSelectors, form.emailIndex)
  /\ form.passwordIndex # 0 =>
       FirstHit(passwordSelectors(form.platform), form.passwordIndex)
  /\ form.pc \in {"fill", "filled"} =>
       /\ form.passwordIndex # 0
       /\ form.platform = OlxPro => form.emailIndex # 0
  /\ form.pc = "done" =>
       /\ form.result.success = FALSE
       /\ form.result.message # InvalidCredentials
       /\ form.filled = {}
       /\ form.result.message =
            IF form.platform = OlxPro /\ Hits(OlxEmailSelectors) = {}
              THEN EmailNotFound
            ELSE IF form.platform = Univen /\ ~form.usernameFound
              THEN UsernameNotFound
            ELSE PasswordNotFound(form.platform)
       /\ \/ form.platform = OlxPro /\ Hits(OlxEmailSelectors) = {}
          \/ form.platform = Univen /\ ~form.usernameFound
          \/ Hits(passwordSelectors(form.platform)) = {}
  /\ form.pc = "filled" => form.filled = {"email", "password"}

\* C34's case: two candidates of the password list match and the probe has
\* gone on to fill the fields in.
C34_LaterCandidateAlsoMatches ==
  /\ form.pc = "filled"
  /\ Cardinality(Hits(passwordSelectors(form.platform))) = 2

(* ---- the indicator counts of the browser-driven probes ---- *)

\* C39: in both browser-driven probes, for every address, content and title
\* of the page read, the success-indicator count and the failure-indicator
\* count are not both zero, and the result returned is never the
\* inconclusive one.
C39_NeverInconclusive ==
  probe.platform # Null =>
    /\ successCount > 0 \/ errorCount > 0
    /\ probe.analysed => probe.result.message # Inconclusive

\* C39's case: a page whose content and title hold no indicator was judged;
\* the address alone decided.
C39_OnlyTheAddressCounts ==
  /\ probe.analysed
  /\ probe.pageContent = {}
  /\ probe.pageTitle = {}
  /\ successCount + errorCount = 1

(* ---- runs of the workflow for one job ---- *)

\* C38: at most one call of startAutomation is executing the workflow for a
\* job id at any time, also when a start follows a stop whose stopped run
\* has not yet returned.
C38_OneRunPerJob ==
  \A r1, r2 \in Runs :
    (Running(r1) /\ Running(r2) /\ run[r1].id = run[r2].id) => r1 = r2

(* ---- getAutomations: the order of the jobs returned ---- *)

ListingFrame ==
  UNCHANGED << login, probe, puppeteer, transition, credentials, tester, wss,
               memStorage, form >>
  /\ ServiceFrame

\* The two implementations of IStorage.
Storages == {"MemStorage", "DatabaseStorage"}

\* The ids of the stored jobs: the n-th job created has id n.
Listed == DOMAIN listing.createdAt

\* The sequences that hold every job id once.
Orders == {p \in [1 .. Cardinality(Listed) -> Listed] : \A k \in Listed : \E i \in DOMAIN p : p[i] = k}

\* MemStorage: Array.from(this.automations.values()).sort((a, b) =>
\* b.createdAt - a.createdAt): the values in insertion order, sorted by a
\* stable sort, latest createdAt first.
sortLatestFirst ==
  {p \in Orders :
     \A i, j \in DOMAIN p :
       i < j => \/ listing.createdAt[p[i]] > listing.createdAt[p[j]]
                \/ /\ listing.createdAt[p[i]] = listing.createdAt[p[j]]
                   /\ p[i] < p[j]}

\* DatabaseStorage: db.select().from(automations).orderBy(
\* automations.createdAt): ascending; rows of equal createdAt in any order.
orderByCreatedAt ==
  {p \in Orders :
     \A i, j \in DOMAIN p :
       i < j => listing.createdAt[p[i]] <= listing.createdAt[p[j]]}

\* limit ? automations.slice(0, limit) : automations, and query.limit(limit)
slice(p, limit) ==
  IF limit = 0 \/ limit >= Len(p) THEN p ELSE SubSeq(p, 1, limit)

\* createAutomation: createdAt is the time of the call.
createJob ==
  /\ Len(listing.createdAt) < MaxListed
  /\ listing' = [listing EXCEPT !.createdAt = Append(@, listing.now)]
  /\ ListingFrame

\* Time passes between two calls.
tick ==
  /\ listing.now < MaxListed
  /\ listing' = [listing EXCEPT !.now = @ + 1]
  /\ ListingFrame

\* getAutomations(limit); limit 0 stands for a call without limit.
getAutomations ==
  /\ \E limit \in 0 .. MaxListed :
       \E p \in (IF listing.storage = "MemStorage" THEN sortLatestFirst
                                                   ELSE orderByCreatedAt) :
         listing' = [listing EXCEPT !.asked = TRUE, !.limit = limit,
                                    !.of = Len(listing.createdAt),
                                    !.ids = slice(p, limit)]
  /\ ListingFrame

InitListing ==
  /\ ServiceInit
  /\ login = NoLogin
  /\ probe = NoProbe
  /\ puppeteer = NoPuppeteer
  /\ transition = NoTransition
  /\ credentials = NoCredentials
  /\ tester = NoTester
  /\ wss = NoWss
  /\ memStorage = NoMemStorage
  /\ form = NoForm
  /\ \E storage \in Storages : listing = [NoListing EXCEPT !.storage = storage]

NextListing ==
  \/ createJob
  \/ tick
  \/ getAutomations

SpecListing == InitListing /\ [][NextListing]_vars

\* C37: getAutomations returns the jobs from the one created last to the one
\* created first, and getAutomations(n) with n > 0 the n created last, for
\* both implementations and also when creation times are equal.
C37_LatestFirst ==
  listing.asked =>
    LET n == IF listing.limit = 0 \/ listing.limit >= listing.of
               THEN listing.of ELSE listing.limit
    IN  listing.ids = [i \in 1 .. n |-> listing.of - i + 1]

====
